---- MODULE Spec2Model ----
(***************************************************************************)
(* Sharme durable-sync engine: the local store (facts, pending_deletes,    *)
(* meta), the MCP tool handlers that mutate it, the 60 s fact-push tick    *)
(* (syncDirtyFacts) and the append-only archive it uploads shards to.      *)
(*                                                                         *)
(* The server is one single-threaded JavaScript process: a handler runs    *)
(* without interruption until it awaits.  syncDirtyFacts awaits once per   *)
(* shard (pushShard), so other handlers, and further timer ticks, run      *)
(* while an upload is in flight.  The process can be killed at any point;  *)
(* the store (SQLite, one autocommit per statement) and the archive        *)
(* survive.                                                                *)
(***************************************************************************)
EXTENDS Integers, Sequences, FiniteSets, TLC

\* ---------------------------------------------------------------- bounds
NumKeys == 2
NumValues == 2
\* syncDirtyFacts invocations that can be in flight together
MaxRuns == 2
\* transactions the archive accepts before every further upload fails
MaxUploads == 4
\* operations that fit the shard byte budget (every op has unit size)
MaxShardOps == 1
\* tool calls (store_fact, delete_fact) and timer firings in one behaviour
MaxToolCalls == 4
MaxTicks == 2
\* messages the watched transcript can hold
MaxMessages == 13
\* messages whose ciphertext fits one chunk (every message has unit size)
MaxChunkMessages == 8
\* Conversation objects the watcher emits in one behaviour
MaxEmits == 2
\* configured GraphQL endpoints (the default list has two)
NumEndpoints == 2
\* transaction ids a gateway can name
NumTxIds == 2
\* edges a gateway hands a query in one behaviour
MaxEdges == 2
\* the largest byte cap a download is called with; bodies are up to one
\* byte longer
MaxBytes == 2
\* transactions someone else uploads under the wallet's tags
MaxInjected == 1
\* share ids the tokens name
NumShares == 2
\* `sharme sync` runs in one behaviour
MaxRedemptions == 3
\* sample keys of the token model, beside the all-zero key
NumSampleKeys == 2
\* the longest cut of a token's JSON
MaxCut == 8
\* invocations of the watcher callback suspended at the same time
MaxCallbacks == 2
\* the longest transcript of the session the callbacks race on
MaxTranscript == 4
\* conversations a loader of discoverConversations returns
MaxListed == 2
\* identity records on the archive of the wallet being restored
MaxIdentities == 2
\* const GQL_MAX_PAGES = 1000
GQL_MAX_PAGES == 1000

Keys == 1..NumKeys
Values == 1..NumValues
Runs == 1..MaxRuns

VARIABLES
    db,         \* the local store: [facts, pending_deletes, meta]
    archive,    \* the wallet's transactions, in the order they were accepted
    run,        \* the in-flight syncDirtyFacts invocations
    restore,    \* `sharme init --existing` on a second, fresh device
    snap,       \* history: the store as each invocation found it
    confirmed,  \* history: the highest shard version pushShard has resolved for
    lastEvent,  \* history: the last handler that completed
    calls,      \* history: tool calls and timer firings so far
    tool,       \* the tool handler that is between two statements, the clock
    conv,       \* a watched session and its ConversationWatcher callback
    query,      \* a paginated gateway query in progress
    ingest,     \* a gateway query filtering the edges it is given
    download,   \* a downloadShard call in progress
    redeem,     \* a `sharme sync <url>` process and the imports table
    token,      \* a share token or URL being encoded, decoded or parsed
    server,     \* the MCP server process: its timer, its store handle
    watch,      \* a watched session and the invocations of its callback
    discover    \* the lists discoverConversations loads and what it returns

\* the variables the fact push and the restore leave alone
cli == <<ingest, download, redeem, token, server, watch, discover>>
aux == <<tool, conv, query, cli>>

vars == <<db, archive, run, restore, snap, confirmed, lastEvent, calls, aux>>

\* ------------------------------------------------------- decimal strings
\* meta values are TEXT: String(n) writes a number as decimal digits and
\* parseInt(s, 10) reads it back.
RECURSIVE String(_)
String(n) == IF n < 10 THEN <<n>> ELSE String(n \div 10) \o <<n % 10>>

RECURSIVE parseInt(_)
parseInt(s) ==
    IF Len(s) = 1 THEN s[1]
    ELSE 10 * parseInt(SubSeq(s, 1, Len(s) - 1)) + s[Len(s)]

\* ------------------------------------------------------------- the store
\* facts is the table in rowid order; a row is a fact (key, value,
\* access_count and, where the behaviours have a clock, created and
\* last_confirmed) with its dirty flag.  pending_deletes is the set of its
\* keys (deleted_at is read by nothing).  meta maps the keys that have a
\* row to their TEXT value.
getMeta(d, key) == d.meta[key]
hasMeta(d, key) == key \in DOMAIN d.meta

\* getMeta(db, key) ?? dflt
getMetaOr(d, key, dflt) == IF hasMeta(d, key) THEN getMeta(d, key) ELSE dflt

setMeta(d, key, value) ==
    [d EXCEPT !.meta = [k \in DOMAIN d.meta \cup {key} |->
                            IF k = key THEN value ELSE d.meta[k]]]

hasFact(d, key) == \E i \in 1..Len(d.facts) : d.facts[i].key = key
rowIndex(d, key) == CHOOSE i \in 1..Len(d.facts) : d.facts[i].key = key

rowToFact(row) == [c \in DOMAIN row \ {"dirty"} |-> row[c]]

getFact(d, key) == rowToFact(d.facts[rowIndex(d, key)])

\* mutant: INSERT OR REPLACE, every column taken from the new fact
upsertRow_replace(d, fact) ==
    LET row == [c \in DOMAIN fact \cup {"dirty"} |->
                   IF c = "dirty" THEN TRUE ELSE fact[c]]
    IN [d EXCEPT
          !.facts = IF hasFact(d, fact.key)
                    THEN [d.facts EXCEPT ![rowIndex(d, fact.key)] = row]
                    ELSE Append(d.facts, row)]

\* the row of a key that has one
rowOf(d, key) == d.facts[rowIndex(d, key)]

\* INSERT ... ON CONFLICT(key) DO UPDATE SET <every column but key and
\* created> = excluded.<column>, dirty = 1 (the row keeps its rowid)
upsertRow(d, fact) ==
    LET inserted == [c \in DOMAIN fact \cup {"dirty"} |->
                        IF c = "dirty" THEN TRUE ELSE fact[c]]
        updated(old) == [c \in DOMAIN old |->
                            IF c = "dirty" THEN TRUE
                            ELSE IF c \in {"key", "created"} THEN old[c]
                            ELSE fact[c]]
    IN [d EXCEPT
          !.facts = IF hasFact(d, fact.key)
                    THEN [d.facts EXCEPT ![rowIndex(d, fact.key)] =
                                             updated(d.facts[rowIndex(d, fact.key)])]
                    ELSE Append(d.facts, inserted)]

\* DELETE FROM pending_deletes WHERE key = ?
deletePendingFor(d, key) ==
    [d EXCEPT !.pending_deletes = d.pending_deletes \ {key}]

\* upsertFact is two statements, each its own autocommit
upsertFact(d, fact) == deletePendingFor(upsertRow(d, fact), fact.key)

\* UPDATE facts SET access_count = access_count + 1 WHERE key = ?
incrementAccessCount(d, key) ==
    [d EXCEPT !.facts = [i \in 1..Len(d.facts) |->
                            IF d.facts[i].key = key
                            THEN [d.facts[i] EXCEPT !.access_count = @ + 1]
                            ELSE d.facts[i]]]

\* mutant: the DELETE FROM facts is left out
deleteFact_keepsRow(d, key) ==
    [d EXCEPT !.pending_deletes = IF hasFact(d, key)
                                  THEN d.pending_deletes \cup {key}
                                  ELSE d.pending_deletes]

\* mutant: the pending delete is recorded whether or not the row existed
deleteFact_always(d, key) ==
    [d EXCEPT
       !.facts = SelectSeq(d.facts, LAMBDA row : row.key # key),
       !.pending_deletes = d.pending_deletes \cup {key}]

deleteFact(d, key) ==
    LET exists == hasFact(d, key)
    IN [d EXCEPT
          !.facts = SelectSeq(d.facts, LAMBDA row : row.key # key),
          !.pending_deletes = IF exists THEN d.pending_deletes \cup {key}
                              ELSE d.pending_deletes]

\* SELECT * FROM facts WHERE dirty = 1: a table scan, rowid order
getDirtyFacts(d) ==
    LET rows == SelectSeq(d.facts, LAMBDA row : row.dirty)
    IN [i \in 1..Len(rows) |-> rowToFact(rows[i])]

RECURSIVE ascending(_)
ascending(S) ==
    IF S = {} THEN <<>>
    ELSE LET m == CHOOSE x \in S : \A y \in S : x <= y
         IN <<m>> \o ascending(S \ {m})

\* SELECT key FROM pending_deletes: read off the primary-key index
getPendingDeletes(d) == ascending(d.pending_deletes)

\* clearDirtyState is two statements, each its own autocommit
clearDirtyFlags(d) ==
    [d EXCEPT !.facts = [i \in 1..Len(d.facts) |->
                            [d.facts[i] EXCEPT !.dirty = FALSE]]]

\* mutant: the DELETE FROM pending_deletes is left out
clearPendingDeletes_kept(d) == d

clearPendingDeletes(d) == [d EXCEPT !.pending_deletes = {}]

clearDirtyState(d) == clearPendingDeletes(clearDirtyFlags(d))

\* the store `sharme init` leaves: no facts, current_version = "0"
\* (the created and wallet_address rows are read by no operation here)
InitDb ==
    [facts |-> <<>>, pending_deletes |-> {},
     meta |-> [k \in {"current_version"} |-> String(0)]]

\* --------------------------------------------------------------- shards
factToUpsertOp(fact) == [op |-> "upsert", fact |-> fact]
deleteOp(key) == [op |-> "delete", key |-> key]

Min(a, b) == IF a < b THEN a ELSE b

\* greedy packing of the op list into shards of consecutive versions
createChunkedShards(operations, startVersion) ==
    LET n == (Len(operations) + MaxShardOps - 1) \div MaxShardOps
    IN [j \in 1..n |->
          [shard_version |-> startVersion + j - 1,
           type |-> "delta",
           operations |-> SubSeq(operations, (j - 1) * MaxShardOps + 1,
                                 Min(j * MaxShardOps, Len(operations)))]]

\* the transaction pushShard uploads for a shard (tags Type and Version,
\* data the encrypted operations).  blob says what a pull finds when it
\* downloads and checks the transaction: "ok" for what pushShard uploads.
shardTx(shard, type) ==
    [type |-> type, version |-> shard.shard_version,
     operations |-> shard.operations, blob |-> "ok"]

\* ------------------------------------------------------ pull and replay
Max(a, b) == IF a > b THEN a ELSE b

RECURSIVE maxVersion(_)
maxVersion(shards) ==
    IF Len(shards) = 0 THEN 0
    ELSE Max(shards[Len(shards)].version,
             maxVersion(SubSeq(shards, 1, Len(shards) - 1)))

\* shards.sort((a, b) => a.version - b.version): Array.prototype.sort is
\* stable, so shards of one version keep the order the gateway listed them
RECURSIVE sortFrom(_, _)
sortFrom(shards, v) ==
    IF v > maxVersion(shards) THEN <<>>
    ELSE SelectSeq(shards, LAMBDA s : s.version = v) \o sortFrom(shards, v + 1)

sortByVersion_tiesReversed(shards) ==
    sortFrom([i \in 1..Len(shards) |-> shards[Len(shards) + 1 - i]], 0)
sortByVersion(shards) == sortFrom(shards, 0)

\* the wallet's transactions as queryShards returns them: a transaction
\* without a Signature tag is skipped
queryShards(a) == sortByVersion(SelectSeq(a, LAMBDA tx : tx.blob # "unsigned"))

applyOp(state, o) ==
    IF o.op = "upsert"
    THEN {f \in state : f.key # o.fact.key} \cup {o.fact}
    ELSE {f \in state : f.key # o.key}

RECURSIVE applyOps(_, _)
applyOps(state, operations) ==
    IF Len(operations) = 0 THEN state
    ELSE applyOps(applyOp(state, Head(operations)), Tail(operations))

RECURSIVE replay(_, _)
replay(state, shards) ==
    IF Len(shards) = 0 THEN state
    ELSE replay(applyOps(state, Head(shards).operations), Tail(shards))

\* the shards from the highest-versioned snapshot on; all of them when
\* there is no snapshot
startAtSnapshot(shards) ==
    LET snapshots == {i \in 1..Len(shards) : shards[i].type = "snapshot"}
    IN IF snapshots = {} THEN shards
       ELSE SubSeq(shards, CHOOSE i \in snapshots : \A j \in snapshots : j <= i,
                   Len(shards))

\* the download is within the cap, the signature verifies against the
\* tagged wallet, the data decrypts and parses
intact(tx) == tx.blob = "ok"

\* pullAndReconstruct: the delta and snapshot shards in version order, from
\* the highest-versioned snapshot on; a shard that fails its download,
\* signature, decryption or parse is skipped; the rest are replayed from
\* the empty state; current_version = the highest version seen
pullAndReconstruct(a) ==
    LET shards == SelectSeq(queryShards(a),
                            LAMBDA s : s.type \in {"delta", "snapshot"})
        selected == SelectSeq(startAtSnapshot(shards), intact)
    IN [facts |-> replay({}, selected), version |-> maxVersion(shards)]

\* ------------------------------------------------------- JS strings
\* A string is the sequence of its characters.  tagMap.get(name) is <<>>
\* when the transaction has no such tag and <<value>> when it has.
Undefined == <<>>
Defined(x) == Len(x) = 1

Digits == {"0", "1", "2", "3", "4", "5", "6", "7", "8", "9"}
digitValue(c) == CHOOSE n \in 0..9 : <<"0", "1", "2", "3", "4", "5", "6", "7", "8", "9">>[n + 1] = c

\* String.prototype.trim, for the blank " "
RECURSIVE trimStart(_)
trimStart(s) == IF Len(s) > 0 /\ Head(s) = " " THEN trimStart(Tail(s)) ELSE s
RECURSIVE trimEnd(_)
trimEnd(s) ==
    IF Len(s) > 0 /\ s[Len(s)] = " " THEN trimEnd(SubSeq(s, 1, Len(s) - 1)) ELSE s
trim(s) == trimEnd(trimStart(s))

\* String.prototype.toLowerCase, for the letters the wallets are drawn from
lowerOf(c) == IF c = "A" THEN "a" ELSE IF c = "B" THEN "b" ELSE c
toLowerCase(s) == [i \in 1..Len(s) |-> lowerOf(s[i])]

\* the longest prefix of s made of digits
RECURSIVE digitPrefix(_)
digitPrefix(s) ==
    IF Len(s) > 0 /\ Head(s) \in Digits
    THEN <<Head(s)>> \o digitPrefix(Tail(s))
    ELSE <<>>

RECURSIVE digitsValue(_)
digitsValue(s) ==
    IF Len(s) = 0 THEN 0
    ELSE 10 * digitsValue(SubSeq(s, 1, Len(s) - 1)) + digitValue(s[Len(s)])

NaN == [finite |-> FALSE, value |-> 0]
\* Number.parseInt(s, 10): leading blanks are skipped, a sign is read, then
\* digits up to the first character that is not one; NaN when there is none
NumberParseInt(s) ==
    LET t == trimStart(s)
        negative == Len(t) > 0 /\ Head(t) = "-"
        signed == Len(t) > 0 /\ Head(t) \in {"-", "+"}
        digits == digitPrefix(IF signed THEN Tail(t) ELSE t)
    IN IF Len(digits) = 0 THEN NaN
       ELSE [finite |-> TRUE,
             value |-> IF negative THEN 0 - digitsValue(digits)
                       ELSE digitsValue(digits)]

\* Number.isFinite
isFinite(x) == x.finite

\* ------------------------------------------------------- fetchIdentity
\* String.prototype.localeCompare under the root collation, for the digits
\* and the letters a, A, b, B, x: digits go before letters, the letters are
\* compared without their case first (a = A < b = B < x), and only when
\* the two strings are equal that way does the case of the first differing
\* letter decide, the lower case first
primaryWeight(c) ==
    IF c \in Digits THEN digitValue(c) - 10
    ELSE IF c \in {"a", "A"} THEN 1 ELSE IF c \in {"b", "B"} THEN 2 ELSE 3
tertiaryWeight(c) == IF c \in {"A", "B"} THEN 1 ELSE 0
\* the UTF-16 code units of the same letters
codeUnit(c) ==
    IF c = "A" THEN 65 ELSE IF c = "B" THEN 66 ELSE IF c = "a" THEN 97 ELSE 98

\* -1, 0 or 1: the order of two number sequences, element by element, a
\* proper prefix first
compareSeq(s, t) ==
    LET shorter == IF Len(s) < Len(t) THEN Len(s) ELSE Len(t)
        differ == {i \in 1..shorter : s[i] # t[i]}
    IN IF differ = {}
       THEN IF Len(s) < Len(t) THEN 0 - 1 ELSE IF Len(s) > Len(t) THEN 1 ELSE 0
       ELSE LET i == CHOOSE d \in differ : \A e \in differ : d <= e
            IN IF s[i] < t[i] THEN 0 - 1 ELSE 1

\* the lexicographic order of two strings: code unit by code unit
lexicographic(x, y) ==
    compareSeq([i \in 1..Len(x) |-> codeUnit(x[i])],
               [i \in 1..Len(y) |-> codeUnit(y[i])])
localeCompare(x, y) ==
    LET primary == compareSeq([i \in 1..Len(x) |-> primaryWeight(x[i])],
                              [i \in 1..Len(y) |-> primaryWeight(y[i])])
    IN IF primary # 0 THEN primary
       ELSE compareSeq([i \in 1..Len(x) |-> tertiaryWeight(x[i])],
                       [i \in 1..Len(y) |-> tertiaryWeight(y[i])])

\* const sa = Number.isFinite(ta) ? ta : 0
timestampOf(shard) ==
    LET ta == NumberParseInt(shard.timestamp)
    IN IF isFinite(ta) THEN ta.value ELSE 0

\* the comparator of identityTxs.sort: negative when a goes before b
newestFirst(a, b) ==
    LET sa == timestampOf(a)
        sb == timestampOf(b)
    IN IF sa # sb THEN sb - sa
       ELSE localeCompare(b.txId, a.txId)

\* identityTxs.sort(newestFirst)[0]: the sort is stable, so its first
\* element is the earliest of the array that no other goes before
sortedFirst_salted(txs) ==
    LET salted == {i \in 1..Len(txs) : Defined(txs[i].salt)}
        pool == IF salted = {} THEN 1..Len(txs) ELSE salted
        i == CHOOSE i \in pool :
                /\ \A j \in pool : newestFirst(txs[i], txs[j]) <= 0
                /\ \A j \in pool : j < i => newestFirst(txs[j], txs[i]) > 0
    IN txs[i]
sortedFirst(txs) ==
    LET i == CHOOSE i \in 1..Len(txs) :
                /\ \A j \in 1..Len(txs) : newestFirst(txs[i], txs[j]) <= 0
                /\ \A j \in 1..(i - 1) : newestFirst(txs[j], txs[i]) > 0
    IN txs[i]

\* the archive's record of a transaction carries a Signature tag
signed(tx) == tx.blob # "unsigned"

\* what fetchIdentity returns: null, or the salt (the bytes, named by their
\* hex text) and the downloaded data (named by what it decrypts to).
\* queried and downloaded are history: the transaction whose tags were
\* asked for and the transactions whose data was downloaded.
null(queried) ==
    [found |-> FALSE, salt |-> <<>>, data |-> "none", queried |-> queried,
     downloaded |-> {}]

\* fetchIdentity over the archive a; edgeFound is whether the gateway
\* answers the tag query for the selected transaction with an edge
fetchIdentity(a, edgeFound) ==
    LET identityTxs ==
            SelectSeq(queryShards(a),
                      LAMBDA s : s.type = "identity" /\ signed(s))
    IN IF Len(identityTxs) = 0 THEN null(<<>>)
       ELSE LET identityTx == sortedFirst(identityTxs)
            IN IF ~edgeFound THEN null(<<identityTx.txId>>)
               ELSE IF identityTx.salt = Undefined \/ identityTx.salt[1] = <<>>
               THEN null(<<identityTx.txId>>)
               ELSE [found |-> TRUE, salt |-> identityTx.salt[1],
                     data |-> identityTx.decryptsTo,
                     queried |-> <<identityTx.txId>>,
                     downloaded |-> {identityTx.txId}]

\* the facts of the local store, without their dirty flags
localFacts(d) == {rowToFact(d.facts[i]) : i \in 1..Len(d.facts)}

currentVersion(d) == parseInt(getMetaOr(d, "current_version", String(0)))
lastPushedVersion(d) == parseInt(getMetaOr(d, "last_pushed_version", String(0)))

\* ------------------------------------------------------ syncDirtyFacts
IdleRun == [pc |-> "idle", shards |-> <<>>, i |-> 0, lastVersion |-> 0]
NoSnap == [clean |-> FALSE, db |-> InitDb]

CommitPcs == {"clear_dirty", "clear_pending", "set_current", "set_last_pushed"}
Active(r) == run[r].pc # "idle"
\* a handler is in the middle of a synchronous block: nothing else runs
Busy == \E r \in Runs : run[r].pc \in CommitPcs

\* const startVersion = currentVersion + 1
startVersionAfter_same(current) == current
startVersionAfter(current) == current + 1

\* the operations syncDirtyFacts builds from the state of the store
buildOperations(d) ==
    LET dirtyFacts == getDirtyFacts(d)
        pendingDeletes == getPendingDeletes(d)
    IN [i \in 1..Len(dirtyFacts) |-> factToUpsertOp(dirtyFacts[i])]
       \o [i \in 1..Len(pendingDeletes) |-> deleteOp(pendingDeletes[i])]

\* mutant: the next free version is stored instead of the last uploaded one
setCurrentVersion_next(d, lastVersion) ==
    setMeta(d, "current_version", String(lastVersion + 1))

\* setMeta(db, "current_version", String(lastVersion))
setCurrentVersion(d, lastVersion) ==
    setMeta(d, "current_version", String(lastVersion))

\* setMeta(db, "last_pushed_version", String(lastVersion))
setLastPushedVersion(d, lastVersion) ==
    setMeta(d, "last_pushed_version", String(lastVersion))

\* mutant: the catch block gives up on the batch and clears the dirty state
catchBlock_clears(d) == clearDirtyState(d)

\* the catch block: a line on stderr, the store is not touched
catchBlock(d) == d

\* every operation of an invocation's shards, in upload order
RECURSIVE allOperations(_)
allOperations(shards) ==
    IF Len(shards) = 0 THEN <<>>
    ELSE Head(shards).operations \o allOperations(Tail(shards))

\* the snapshots of the other in-flight invocations no longer match the store
disturbed(r) ==
    [q \in Runs |-> IF q = r \/ ~Active(q) THEN snap[q] ELSE NoSnap]
disturbedAll == [q \in Runs |-> NoSnap]

\* the second device: home is whether SHARME_HOME exists, files the files
\* in it, facts and version what its store holds; afterPush and identity
\* are history: the restore started right after a push of the first device
\* had committed, and what fetchIdentity returned to it
FreshDevice ==
    [pc |-> "fresh", home |-> FALSE, files |-> {}, facts |-> {},
     version |-> 0, afterPush |-> FALSE, error |-> "none",
     identity |-> <<>>]

\* startMcpServer has returned: the sync timer is set, the store is open;
\* inFlight is history: the syncDirtyFacts invocations that were awaiting
\* an upload or between two commit statements when the store was closed
Serving == [syncTimer |-> TRUE, closed |-> FALSE, exited |-> FALSE,
            inFlight |-> {}]

\* invocations of the watcher callback that can be suspended together
Callbacks == 1..MaxCallbacks
\* the callback is not running
Returned == [pc |-> "returned", n |-> 0, lastSynced |-> 0]
\* the watched session has no messages, nothing of it is uploaded, no
\* invocation of the callback is running (emits counts the invocations)
Watching ==
    [messages |-> 0, emits |-> 0, segments |-> <<>>,
     callback |-> [c \in Callbacks |-> Returned]]

\* no transcript file, no remote conversation and no shared import is
\* there yet; discoverConversations has not been called
NothingListed ==
    [pc |-> "loading", local |-> <<>>, remote |-> <<>>, shared |-> <<>>,
     localOnly |-> FALSE, result |-> <<>>]

\* no handler is between two statements; the clock reads 0
IdleTool == [pc |-> "idle", key |-> 0, now |-> 0]
\* the watched session has no messages and no callback is running
IdleConv ==
    [pc |-> "idle", messages |-> 0, emits |-> 0, n |-> 0, lastSynced |-> 0,
     chunk |-> 0, total |-> 0, chunks |-> <<>>]
\* the page a gateway answered with: whether it has edges, whether
\* pageInfo.hasNextPage is true, whether its last edge has a cursor
NoPage == [edges |-> FALSE, hasNextPage |-> FALSE, cursor |-> FALSE]
\* no query has been started
IdleQuery ==
    [pc |-> "idle", fn |-> "none", pageCount |-> 0, requests |-> 0,
     endpoint |-> 0, tried |-> {}, after |-> FALSE, collected |-> 0,
     last |-> NoPage, result |-> "none", error |-> "none"]

\* no edge has been looked at
\* (rows is history: the edges whose rows were accepted)
IdleIngest == [fn |-> "none", seenTxIds |-> {}, shards |-> <<>>, edges |-> 0,
               returned |-> FALSE, rows |-> <<>>]
\* (attempts is history: what each endpoint answered and whether its body
\* was read)
IdleDownload == [pc |-> "idle", maxBytes |-> <<>>, endpoint |-> 0,
                 attempts |-> <<>>, result |-> <<>>]
\* sharme is initialized, nothing is imported, no `sharme sync` is running
\* (importsAtStart, direct, queries, downloads, encrypted, verifyCalled and
\* decrypted are history of the running or last redemption)
IdleRedeem ==
    [pc |-> "idle", shareId |-> 0, tokenTx |-> <<>>, txId |-> <<>>,
     shareInfo |-> <<>>, imports |-> <<>>, importsAtStart |-> <<>>,
     direct |-> "none", queries |-> 0, downloads |-> <<>>,
     encrypted |-> <<>>, verifyCalled |-> FALSE, decrypted |-> FALSE,
     outcome |-> "none", runs |-> 0]

\* JavaScript values: undefined, null, a number, a string (its characters)
\* or an object (its members in insertion order)
JsValue(type, num, str, members) ==
    [type |-> type, num |-> num, str |-> str, members |-> members]
JsUndefined == JsValue("undefined", 0, <<>>, <<>>)
JsNull == JsValue("null", 0, <<>>, <<>>)
JsNumber(n) == JsValue("number", n, <<>>, <<>>)
JsString(s) == JsValue("string", 0, s, <<>>)
JsObject(members) == JsValue("object", 0, <<>>, members)

\* no URL: the parts of a URL, all empty
NoUrl ==
    [scheme |-> [text |-> <<>>, valid |-> FALSE, special |-> FALSE],
     host |-> [text |-> <<>>, valid |-> FALSE],
     path |-> [text |-> <<>>, last |-> <<>>],
     query |-> [text |-> <<>>, token |-> <<>>],
     fragment |-> <<>>]

\* how the input of a run was made: from a share (kind "share"), from an
\* object of any shape ("forged"), from the first cut characters of a
\* token's JSON ("cut"), as a URL ("url") or as a text ("bare"); text is the
\* token or text written, before and after the blanks around it
NotMade ==
    [kind |-> "none", object |-> JsUndefined, key |-> <<>>, stray |-> <<>>,
     cut |-> 0, url |-> NoUrl, text |-> <<>>, asUrl |-> FALSE,
     before |-> <<>>, after |-> <<>>]

\* no token or URL is being handled
IdleToken ==
    [pc |-> "idle", made |-> NotMade, input |-> <<>>, extracted |-> <<>>,
     decoded |-> <<>>]

Init ==
    /\ db = InitDb
    /\ archive = <<>>
    /\ run = [r \in Runs |-> IdleRun]
    /\ restore = FreshDevice
    /\ snap = [r \in Runs |-> NoSnap]
    /\ confirmed = 0
    /\ lastEvent = "init"
    /\ calls = [tool |-> 0, timer |-> 0]
    /\ tool = IdleTool
    /\ conv = IdleConv
    /\ query = IdleQuery
    /\ ingest = IdleIngest
    /\ download = IdleDownload
    /\ redeem = IdleRedeem
    /\ token = IdleToken
    /\ server = Serving
    /\ watch = Watching
    /\ discover = NothingListed

\* ------------------------------------------------------- tool handlers
store_fact(key, value) ==
    /\ ~Busy
    /\ calls.tool < MaxToolCalls
    /\ db' = upsertFact(db, [key |-> key, value |-> value, access_count |-> 0])
    /\ snap' = disturbedAll
    /\ lastEvent' = "mutation"
    /\ calls' = [calls EXCEPT !.tool = @ + 1]
    /\ UNCHANGED <<archive, run, restore, confirmed>>
    /\ UNCHANGED aux

delete_fact(key) ==
    /\ ~Busy
    /\ calls.tool < MaxToolCalls
    /\ IF ~hasFact(db, key)
       THEN UNCHANGED vars
       ELSE /\ db' = deleteFact(db, key)
            /\ snap' = disturbedAll
            /\ lastEvent' = "mutation"
            /\ calls' = [calls EXCEPT !.tool = @ + 1]
            /\ UNCHANGED <<archive, run, restore, confirmed>>
    /\ UNCHANGED aux

\* ------------------------------------------------------- the push tick
\* The interval timer fires: syncDirtyFacts runs up to its first await.
\* Nothing looks at whether an earlier invocation is still in flight.
SyncTick ==
    /\ ~Busy
    /\ calls.timer < MaxTicks
    /\ calls' = [calls EXCEPT !.timer = @ + 1]
    /\ \E r \in Runs :
        /\ ~Active(r)
        /\ \A q \in Runs : q < r => Active(q)
        /\ LET dirtyFacts == getDirtyFacts(db)
               pendingDeletes == getPendingDeletes(db)
               operations == buildOperations(db)
               current == currentVersion(db)
               startVersion == startVersionAfter(current)
               shards == createChunkedShards(operations, startVersion)
           IN IF Len(dirtyFacts) = 0 /\ Len(pendingDeletes) = 0
              THEN /\ lastEvent' = "pushNoop"
                   /\ UNCHANGED <<db, archive, run, restore, snap, confirmed>>
              ELSE /\ run' = [run EXCEPT ![r] =
                                [pc |-> "await", shards |-> shards, i |-> 1,
                                 lastVersion |-> current]]
                   /\ snap' = [snap EXCEPT ![r] = [clean |-> TRUE, db |-> db]]
                   /\ UNCHANGED <<db, archive, restore, confirmed, lastEvent>>
    /\ UNCHANGED aux

\* The upload in flight reaches the archive.
UploadLands(r) ==
    /\ ~Busy
    /\ run[r].pc = "await"
    /\ Len(archive) < MaxUploads
    /\ archive' = Append(archive, shardTx(run[r].shards[run[r].i], "delta"))
    /\ run' = [run EXCEPT ![r].pc = "landed"]
    /\ UNCHANGED <<db, restore, snap, confirmed, lastEvent, calls>>
    /\ UNCHANGED aux

\* pushShard resolves: lastVersion = shard.shard_version, then the next
\* shard's upload starts, or the loop ends and the commit begins.
UploadResolves(r) ==
    /\ ~Busy
    /\ run[r].pc = "landed"
    /\ confirmed' = Max(confirmed, run[r].shards[run[r].i].shard_version)
    /\ run' = [run EXCEPT ![r] =
                 [@ EXCEPT !.lastVersion = run[r].shards[run[r].i].shard_version,
                           !.i = @ + 1,
                           !.pc = IF run[r].i < Len(run[r].shards)
                                  THEN "await" ELSE "clear_dirty"]]
    /\ UNCHANGED <<db, archive, restore, snap, lastEvent, calls>>
    /\ UNCHANGED aux

\* pushShard rejects, whether or not the upload reached the archive; the
\* catch block ends the invocation.
UploadRejects(r) ==
    /\ ~Busy
    /\ run[r].pc \in {"await", "landed"}
    /\ db' = catchBlock(db)
    /\ run' = [run EXCEPT ![r] = IdleRun]
    /\ snap' = [snap EXCEPT ![r] = NoSnap]
    /\ lastEvent' = "pushFail"
    /\ UNCHANGED <<archive, restore, confirmed, calls>>
    /\ UNCHANGED aux

\* The four statements after the loop, each its own autocommit.
CommitClearDirty(r) ==
    /\ run[r].pc = "clear_dirty"
    /\ db' = clearDirtyFlags(db)
    /\ run' = [run EXCEPT ![r].pc = "clear_pending"]
    /\ snap' = disturbed(r)
    /\ UNCHANGED <<archive, restore, confirmed, lastEvent, calls>>
    /\ UNCHANGED aux

CommitClearPending(r) ==
    /\ run[r].pc = "clear_pending"
    /\ db' = clearPendingDeletes(db)
    /\ run' = [run EXCEPT ![r].pc = "set_current"]
    /\ UNCHANGED <<archive, restore, snap, confirmed, lastEvent, calls>>
    /\ UNCHANGED aux

CommitSetCurrent(r) ==
    /\ run[r].pc = "set_current"
    /\ db' = setCurrentVersion(db, run[r].lastVersion)
    /\ run' = [run EXCEPT ![r].pc = "set_last_pushed"]
    /\ UNCHANGED <<archive, restore, snap, confirmed, lastEvent, calls>>
    /\ UNCHANGED aux

CommitSetLastPushed(r) ==
    /\ run[r].pc = "set_last_pushed"
    /\ db' = setLastPushedVersion(db, run[r].lastVersion)
    /\ run' = [run EXCEPT ![r] = IdleRun]
    /\ snap' = [snap EXCEPT ![r] = NoSnap]
    /\ lastEvent' = IF snap[r].clean THEN "pushOk" ELSE "pushOkRaced"
    /\ UNCHANGED <<archive, restore, confirmed, calls>>
    /\ UNCHANGED aux

\* The process is killed (and the server started again): what was in
\* flight is gone, the store and the archive stay as they are.
Crash ==
    /\ \E r \in Runs : Active(r)
    /\ run' = [r \in Runs |-> IdleRun]
    /\ snap' = [r \in Runs |-> NoSnap]
    /\ lastEvent' = "crash"
    /\ UNCHANGED <<db, archive, restore, confirmed, calls>>
    /\ UNCHANGED aux

Next ==
    \/ \E key \in Keys, value \in Values : store_fact(key, value)
    \/ \E key \in Keys : delete_fact(key)
    \/ SyncTick
    \/ \E r \in Runs : UploadLands(r)
    \/ \E r \in Runs : UploadResolves(r)
    \/ \E r \in Runs : UploadRejects(r)
    \/ \E r \in Runs : CommitClearDirty(r)
    \/ \E r \in Runs : CommitClearPending(r)
    \/ \E r \in Runs : CommitSetCurrent(r)
    \/ \E r \in Runs : CommitSetLastPushed(r)
    \/ Crash

Spec == Init /\ [][Next]_vars

\* The behaviours in which nothing but a rejected upload disturbs a push:
\* no tool call and no timer tick arrives while a push is in flight, and the
\* process is never killed.
NextSequential ==
    \/ (\A r \in Runs : ~Active(r))
          /\ \E key \in Keys, value \in Values : store_fact(key, value)
    \/ (\A r \in Runs : ~Active(r)) /\ \E key \in Keys : delete_fact(key)
    \/ (\A r \in Runs : ~Active(r)) /\ SyncTick
    \/ \E r \in Runs : UploadLands(r)
    \/ \E r \in Runs : UploadResolves(r)
    \/ \E r \in Runs : UploadRejects(r)
    \/ \E r \in Runs : CommitClearDirty(r)
    \/ \E r \in Runs : CommitClearPending(r)
    \/ \E r \in Runs : CommitSetCurrent(r)
    \/ \E r \in Runs : CommitSetLastPushed(r)

SpecSequential == Init /\ [][NextSequential]_vars

\* ------------------------------------------------------------ shutdown
\* SIGINT or SIGTERM: the handler runs between two turns of the event loop,
\* never inside a synchronous block.  clearInterval(syncTimer); db.close();
\* process.exit(0): the invocations that were awaiting an upload are gone
\* with the process.
shutdown ==
    /\ ~server.exited
    /\ ~Busy
    /\ server' = [syncTimer |-> FALSE, closed |-> TRUE, exited |-> TRUE,
                  inFlight |-> {r \in Runs : Active(r)}]
    /\ run' = [r \in Runs |-> IdleRun]
    /\ snap' = [r \in Runs |-> NoSnap]
    /\ lastEvent' = "shutdown"
    /\ UNCHANGED <<db, archive, restore, confirmed, calls>>
    /\ UNCHANGED <<tool, conv, query, ingest, download, redeem, token, watch, discover>>

\* The server serves tool calls and pushes on its timer until it is
\* signalled.
NextShutdown ==
    \/ ~server.exited
          /\ \E key \in Keys, value \in Values : store_fact(key, value)
    \/ ~server.exited /\ \E key \in Keys : delete_fact(key)
    \/ ~server.exited /\ server.syncTimer /\ SyncTick
    \/ ~server.exited /\ \E r \in Runs : UploadLands(r)
    \/ ~server.exited /\ \E r \in Runs : UploadResolves(r)
    \/ ~server.exited /\ \E r \in Runs : UploadRejects(r)
    \/ ~server.exited /\ \E r \in Runs : CommitClearDirty(r)
    \/ ~server.exited /\ \E r \in Runs : CommitClearPending(r)
    \/ ~server.exited /\ \E r \in Runs : CommitSetCurrent(r)
    \/ ~server.exited /\ \E r \in Runs : CommitSetLastPushed(r)
    \/ shutdown

SpecShutdown == Init /\ [][NextShutdown]_vars

\* ------------------------------------------------ sharme init --existing
\* initExistingCommand on the second device, with the phrase of the first:
\* the directories are made and pullAndReconstruct is awaited.
InitExistingStart ==
    /\ restore.pc = "fresh"
    /\ restore' = [restore EXCEPT !.pc = "pulling", !.home = TRUE,
                                  !.afterPush = (lastEvent = "pushOk")]
    /\ UNCHANGED <<db, archive, run, snap, confirmed, lastEvent, calls>>
    /\ UNCHANGED aux

\* the catch block of initExistingCommand: rmSync(SHARME_DIR, recursive,
\* force) and the error is thrown again
initExistingCatch_keepsHome(r, err) ==
    [r EXCEPT !.pc = "failed", !.error = err]
initExistingCatch(r, err) ==
    [r EXCEPT !.pc = "failed", !.home = FALSE, !.files = {}, !.facts = {},
              !.version = 0, !.error = err]

\* the files of an initialised SHARME_HOME
HomeFiles == {"sharme.db", "salt", "identity.enc"}

\* pullAndReconstruct resolves, the database file at DB_PATH holds the
\* result; fetchIdentity is awaited.
PullResolves ==
    /\ restore.pc = "pulling"
    /\ LET result == pullAndReconstruct(archive)
       IN restore' = [restore EXCEPT !.pc = "identity",
                                     !.files = {"sharme.db"},
                                     !.facts = result.facts,
                                     !.version = result.version]
    /\ UNCHANGED <<db, archive, run, snap, confirmed, lastEvent, calls>>
    /\ UNCHANGED aux

\* fetchIdentity resolves.  null: "identity transaction not found" is
\* thrown.  Otherwise the salt and the encrypted key are written to
\* SHARME_HOME, the key is decrypted and compared with the one derived
\* from the phrase; decrypt may throw and a different key throws
\* "does not match".  Every throw reaches the catch block.
FetchIdentityResolves(edgeFound) ==
    /\ restore.pc = "identity"
    /\ \E identity \in {fetchIdentity(archive, edgeFound)} :
          LET fetched == [restore EXCEPT !.identity = <<identity>>]
              written == [fetched EXCEPT !.files = HomeFiles]
          IN IF ~identity.found
             THEN restore' = initExistingCatch(fetched, "identity not found")
             ELSE CASE identity.data = "phrase key" ->
                          restore' = [written EXCEPT !.pc = "restored"]
                    [] identity.data = "other key" ->
                          restore' = initExistingCatch(written, "key mismatch")
                    [] identity.data = "garbage" ->
                          restore' = initExistingCatch(written, "decrypt")
    /\ UNCHANGED <<db, archive, run, snap, confirmed, lastEvent, calls>>
    /\ UNCHANGED aux

\* A gateway request of the restore fails on every endpoint: the catch
\* block removes SHARME_HOME and rethrows.
RestoreRejects ==
    /\ restore.pc \in {"pulling", "identity"}
    /\ restore' = initExistingCatch(restore, "gateway")
    /\ UNCHANGED <<db, archive, run, snap, confirmed, lastEvent, calls>>
    /\ UNCHANGED aux

\* The first device runs; then, at some point, the second is restored.
NextRecover ==
    \/ restore.pc = "fresh"
          /\ \E key \in Keys, value \in Values : store_fact(key, value)
    \/ restore.pc = "fresh" /\ \E key \in Keys : delete_fact(key)
    \/ restore.pc = "fresh" /\ SyncTick
    \/ restore.pc = "fresh" /\ \E r \in Runs : UploadLands(r)
    \/ restore.pc = "fresh" /\ \E r \in Runs : UploadResolves(r)
    \/ restore.pc = "fresh" /\ \E r \in Runs : UploadRejects(r)
    \/ restore.pc = "fresh" /\ \E r \in Runs : CommitClearDirty(r)
    \/ restore.pc = "fresh" /\ \E r \in Runs : CommitClearPending(r)
    \/ restore.pc = "fresh" /\ \E r \in Runs : CommitSetCurrent(r)
    \/ restore.pc = "fresh" /\ \E r \in Runs : CommitSetLastPushed(r)
    \/ restore.pc = "fresh" /\ Crash
    \/ InitExistingStart
    \/ PullResolves
    \/ \E edgeFound \in BOOLEAN : FetchIdentityResolves(edgeFound)
    \/ RestoreRejects

SpecRecover == Init /\ [][NextRecover]_vars

\* ------------------------------------- init --existing, identity records
\* the identity records a wallet's archive can hold: the Timestamp and Salt
\* tags, whether there is a Signature tag, and what the data decrypts to
\* under the key derived from the phrase and the salt: the phrase's own
\* private key, another key, or nothing (decrypt throws)
IdentityTxIds == {<<"a">>, <<"B">>, <<"a", "B">>, <<"A", "a">>}
TimestampTags == {<<>>, <<"1">>, <<"2">>, <<"x">>}
SaltTags == {Undefined, <<<<>>>>, <<<<"0", "a">>>>}
Decryptions == {"phrase key", "other key", "garbage"}
IdentityTxs ==
    [type : {"identity"}, version : {0}, operations : {<<>>},
     blob : {"ok", "unsigned"}, txId : IdentityTxIds,
     timestamp : TimestampTags, salt : SaltTags, decryptsTo : Decryptions]

identityRecords(a) == SelectSeq(a, LAMBDA tx : tx.type = "identity")

\* an identity transaction tagged with the wallet is accepted by the
\* archive; a transaction id is never given twice
IdentityUploaded(tx) ==
    /\ restore.pc = "fresh"
    /\ Len(identityRecords(archive)) < MaxIdentities
    /\ \A i \in 1..Len(archive) : archive[i].txId # tx.txId
    /\ archive' = Append(archive, tx)
    /\ UNCHANGED <<db, run, restore, snap, confirmed, lastEvent, calls, aux>>

\* A wallet with identity records on the archive is restored on a fresh
\* device.
NextInitExisting ==
    \/ \E tx \in IdentityTxs : IdentityUploaded(tx)
    \/ InitExistingStart
    \/ PullResolves
    \/ \E edgeFound \in BOOLEAN : FetchIdentityResolves(edgeFound)
    \/ RestoreRejects

SpecInitExisting == Init /\ [][NextInitExisting]_vars

\* ------------------------------------------- the store, statement by statement
\* The store_fact handler with a clock: the fact it builds carries
\* created = last_confirmed = now and access_count 0.  upsertFact's first
\* statement runs.
StoreFactInsert(key, value) ==
    /\ tool.pc = "idle"
    /\ calls.tool < MaxToolCalls
    /\ \E now \in {tool.now, tool.now + 1} :
          /\ db' = upsertRow(db, [key |-> key, value |-> value,
                                  created |-> now, last_confirmed |-> now,
                                  access_count |-> 0])
          /\ tool' = [pc |-> "upsert_written", key |-> key, now |-> now]
    /\ calls' = [calls EXCEPT !.tool = @ + 1]
    /\ lastEvent' = "mutation"
    /\ UNCHANGED <<archive, run, restore, snap, confirmed, conv, query, cli>>

\* upsertFact's second statement runs and the handler returns.
StoreFactClearPending ==
    /\ tool.pc = "upsert_written"
    /\ db' = deletePendingFor(db, tool.key)
    /\ tool' = [tool EXCEPT !.pc = "idle"]
    /\ UNCHANGED <<archive, run, restore, snap, confirmed, lastEvent, calls,
                   conv, query, cli>>

\* The process is killed between the two statements of upsertFact (and the
\* server is started again).
KillInUpsert ==
    /\ tool.pc = "upsert_written"
    /\ tool' = [tool EXCEPT !.pc = "idle"]
    /\ lastEvent' = "crash"
    /\ UNCHANGED <<db, archive, run, restore, snap, confirmed, calls,
                   conv, query, cli>>

RECURSIVE incrementAll(_, _)
incrementAll(d, keys) ==
    IF Len(keys) = 0 THEN d
    ELSE incrementAll(incrementAccessCount(d, Head(keys)), Tail(keys))

\* The recall_context handler: the facts recallContext selects (any of the
\* stored facts) have their access count incremented.
recall_context(results) ==
    /\ tool.pc = "idle"
    /\ calls.tool < MaxToolCalls
    /\ results # {}
    /\ \A key \in results : hasFact(db, key)
    /\ db' = incrementAll(db, ascending(results))
    /\ calls' = [calls EXCEPT !.tool = @ + 1]
    /\ lastEvent' = "recall"
    /\ UNCHANGED <<archive, run, restore, snap, confirmed, aux>>

\* A push tick that nothing disturbs and no upload of which fails, from the
\* timer to the last setMeta.
PushCompletes ==
    /\ tool.pc = "idle"
    /\ calls.timer < MaxTicks
    /\ LET operations == buildOperations(db)
           shards == createChunkedShards(operations, currentVersion(db) + 1)
           lastVersion == shards[Len(shards)].shard_version
       IN /\ Len(operations) > 0
          /\ Len(archive) + Len(shards) <= MaxUploads
          /\ archive' = archive \o [j \in 1..Len(shards) |->
                                       shardTx(shards[j], "delta")]
          /\ db' = setLastPushedVersion(
                      setCurrentVersion(clearDirtyState(db), lastVersion),
                      lastVersion)
          /\ confirmed' = lastVersion
    /\ calls' = [calls EXCEPT !.timer = @ + 1]
    /\ lastEvent' = "pushOk"
    /\ UNCHANGED <<run, restore, snap, aux>>

NextStore ==
    \/ \E key \in Keys, value \in Values : StoreFactInsert(key, value)
    \/ StoreFactClearPending
    \/ KillInUpsert
    \/ tool.pc = "idle" /\ \E key \in Keys : delete_fact(key)
    \/ \E results \in SUBSET Keys : recall_context(results)
    \/ PushCompletes

SpecStore == Init /\ [][NextStore]_vars

\* ------------------------------------------- a pull of a tampered archive
\* what a pull can find wrong with a transaction it did not upload
BadBlobs == {"forged", "oversized", "random", "unsigned"}

\* the transactions someone else can upload with the wallet's tags: any
\* Type and Version, data the wallet's keys did not sign or encrypt
InjectedTxs ==
    [type : {"delta", "snapshot"}, version : 1..(MaxUploads + 1),
     operations : {<<>>}, blob : BadBlobs]

injected(a) == SelectSeq(a, LAMBDA tx : ~intact(tx))

\* someone uploads a transaction tagged with the wallet's address
InjectShard(tx) ==
    /\ restore.pc = "fresh"
    /\ Len(injected(archive)) < MaxInjected
    /\ archive' = Append(archive, tx)
    /\ UNCHANGED <<db, run, restore, snap, confirmed, lastEvent, calls, aux>>

\* The first device stores, deletes and pushes, someone injects, and then a
\* second device pulls.
NextPull ==
    \/ restore.pc = "fresh" /\ \E key \in Keys, value \in Values :
                                 store_fact(key, value)
    \/ restore.pc = "fresh" /\ \E key \in Keys : delete_fact(key)
    \/ restore.pc = "fresh" /\ PushCompletes
    \/ \E tx \in InjectedTxs : InjectShard(tx)
    \/ InitExistingStart
    \/ PullResolves

SpecPull == Init /\ [][NextPull]_vars

\* ------------------------------------------------- conversation sync
\* One watched session.  conv.messages is the length of its transcript,
\* conv.chunks the conversation transactions the archive holds, in upload
\* order.  While a callback is suspended in pushConversationDelta, conv.n
\* is conversation.messages.length, conv.lastSynced the offset it passed,
\* conv.chunk the chunks uploaded so far of conv.total.
stateKey == "conversation_offset:client:session"

\* mutant: the cursor is not read
lastSynced_zero(d) == 0

\* Number.parseInt(getMeta(db, stateKey) ?? "0", 10)
lastSynced(d) == parseInt(getMetaOr(d, stateKey, String(0)))

\* mutant: the catch block writes the cursor
conversationCatch_advances(d, n) == setMeta(d, stateKey, String(n))

\* catch (err) { process.stderr.write(...) }
conversationCatch(d, n) == d

\* chunks of a segment of count messages
chunkCount(count) == (count + MaxChunkMessages - 1) \div MaxChunkMessages

\* the tags of chunk i of total of a segment
conversationTx(offset, count, i, total) ==
    [type |-> "conversation", offset |-> offset, count |-> count,
     chunk |-> i, total |-> total]

IdleCallback(c) ==
    [c EXCEPT !.pc = "idle", !.n = 0, !.lastSynced = 0, !.chunk = 0, !.total = 0]

\* the client appends to the transcript or rewrites it
TranscriptChanges(m) ==
    /\ m # conv.messages
    /\ conv' = [conv EXCEPT !.messages = m]
    /\ UNCHANGED <<db, archive, run, restore, snap, confirmed, lastEvent, calls,
                   tool, query, cli>>

\* the watcher calls the callback: the cursor is read and
\* pushConversationDelta is entered; an empty tail returns no transaction
\* and the callback returns
WatcherEmits ==
    /\ conv.pc = "idle"
    /\ conv.emits < MaxEmits
    /\ LET n == conv.messages
           offset == lastSynced(db)
       IN IF n <= offset
          THEN conv' = [conv EXCEPT !.emits = @ + 1]
          ELSE conv' = [conv EXCEPT !.emits = @ + 1, !.pc = "uploading",
                                    !.n = n, !.lastSynced = offset, !.chunk = 0,
                                    !.total = chunkCount(n - offset)]
    /\ lastEvent' = "emit"
    /\ UNCHANGED <<db, archive, run, restore, snap, confirmed, calls, tool, query, cli>>

\* the upload of the next chunk resolves
ChunkUploadResolves ==
    /\ conv.pc = "uploading"
    /\ conv.chunk < conv.total
    /\ conv' = [conv EXCEPT
                  !.chunk = @ + 1,
                  !.chunks = Append(@, conversationTx(conv.lastSynced,
                                                      conv.n - conv.lastSynced,
                                                      conv.chunk + 1, conv.total))]
    /\ lastEvent' = "chunkOk"
    /\ UNCHANGED <<db, archive, run, restore, snap, confirmed, calls, tool, query, cli>>

\* the upload of the next chunk rejects, whether or not the archive took
\* the transaction: pushConversationDelta throws into the catch block
ChunkUploadRejects ==
    /\ conv.pc = "uploading"
    /\ conv.chunk < conv.total
    /\ \E landed \in BOOLEAN :
          conv' = [IdleCallback(conv) EXCEPT
                     !.chunks = IF landed
                                THEN Append(@, conversationTx(conv.lastSynced,
                                                   conv.n - conv.lastSynced,
                                                   conv.chunk + 1, conv.total))
                                ELSE @]
    /\ db' = conversationCatch(db, conv.n)
    /\ lastEvent' = "chunkFail"
    /\ UNCHANGED <<archive, run, restore, snap, confirmed, calls, tool, query, cli>>

\* pushConversationDelta has returned the transaction ids:
\* setMeta(db, stateKey, String(conversation.messages.length))
CursorWritten ==
    /\ conv.pc = "uploading"
    /\ conv.chunk = conv.total
    /\ db' = setMeta(db, stateKey, String(conv.n))
    /\ conv' = IdleCallback(conv)
    /\ lastEvent' = "cursor"
    /\ UNCHANGED <<archive, run, restore, snap, confirmed, calls, tool, query, cli>>

\* the process is killed while the callback is suspended or before it
\* writes the cursor, and the server starts again
KillInCallback ==
    /\ conv.pc = "uploading"
    /\ conv' = IdleCallback(conv)
    /\ lastEvent' = "crash"
    /\ UNCHANGED <<db, archive, run, restore, snap, confirmed, calls, tool, query, cli>>

NextConversation ==
    \/ \E m \in 0..MaxMessages : TranscriptChanges(m)
    \/ WatcherEmits
    \/ ChunkUploadResolves
    \/ ChunkUploadRejects
    \/ CursorWritten
    \/ KillInCallback

SpecConversation == Init /\ [][NextConversation]_vars

\* ------------------------------------------------ discoverConversations
\* A conversation is its client, its id, its updatedAt text and its
\* messages; content names the messages by the loader that read them.
\* An updatedAt is an ISO 8601 date of the year-only form, or no date.
Clients == {"cursor", "claude-code"}
ConversationKeys == {<<"cursor", 1>>, <<"cursor", 2>>, <<"claude-code", 1>>}
UpdatedAts == {<<"2", "0", "2", "4">>, <<"2", "0", "2", "5">>, <<"x">>}
Loaders == {"local", "remote", "shared"}

\* Date.parse: the year of a four-digit date, NaN for any other text
DateParse(text) ==
    IF Len(text) = 4 /\ \A i \in 1..4 : text[i] \in Digits
    THEN [finite |-> TRUE, value |-> digitsValue(text)]
    ELSE NaN

\* `${conversation.client}:${conversation.id}`: no client has a colon, so
\* the text is the pair
combinedKey(conversation) == <<conversation.client, conversation.id>>

\* Map.prototype.has, get and set on a Map kept as the list of its values
\* in insertion order
has(combined, key) ==
    \E i \in 1..Len(combined) : combinedKey(combined[i]) = key
get(combined, key) ==
    combined[CHOOSE i \in 1..Len(combined) : combinedKey(combined[i]) = key]
set(combined, key, value) ==
    IF has(combined, key)
    THEN [i \in 1..Len(combined) |->
             IF combinedKey(combined[i]) = key THEN value ELSE combined[i]]
    ELSE Append(combined, value)

\* { ...conversation, source }
withSource(conversation, source) == [conversation EXCEPT !.source = source]

\* for (const conversation of local)
RECURSIVE setLocal(_, _)
setLocal(combined, local) ==
    IF Len(local) = 0 THEN combined
    ELSE setLocal(set(combined, combinedKey(Head(local)),
                      withSource(Head(local), "local")),
                  Tail(local))

keepIncoming_always(existing, conversation) == TRUE
keepIncoming(existing, conversation) ==
    LET existingUpdated == DateParse(existing.updatedAt)
        incomingUpdated == DateParse(conversation.updatedAt)
    IN /\ isFinite(incomingUpdated)
       /\ \/ ~isFinite(existingUpdated)
          \/ incomingUpdated.value > existingUpdated.value

\* for (const conversation of remote)
RECURSIVE mergeRemote(_, _)
mergeRemote(combined, remote) ==
    IF Len(remote) = 0 THEN combined
    ELSE LET conversation == Head(remote)
             key == combinedKey(conversation)
             merged == IF keepIncoming(get(combined, key), conversation)
                       THEN withSource(conversation, "both")
                       ELSE withSource(get(combined, key), "both")
         IN mergeRemote(IF ~has(combined, key)
                        THEN set(combined, key,
                                 withSource(conversation, "remote"))
                        ELSE set(combined, key, merged),
                        Tail(remote))

\* for (const conversation of shared)
RECURSIVE addShared(_, _)
addShared(combined, shared) ==
    IF Len(shared) = 0 THEN combined
    ELSE addShared(IF ~has(combined, combinedKey(Head(shared)))
                   THEN set(combined, combinedKey(Head(shared)), Head(shared))
                   ELSE combined,
                   Tail(shared))

\* values.sort((a, b) => b.updatedAt.localeCompare(a.updatedAt)): the sort
\* is stable; each value is put after the values that do not go after it
RECURSIVE sortByUpdatedAt(_)
sortByUpdatedAt(values) ==
    IF Len(values) = 0 THEN <<>>
    ELSE LET sorted == sortByUpdatedAt(SubSeq(values, 1, Len(values) - 1))
             v == values[Len(values)]
             before == {i \in 1..Len(sorted) :
                          localeCompare(v.updatedAt, sorted[i].updatedAt) > 0}
             at == IF before = {} THEN Len(sorted) + 1
                   ELSE CHOOSE i \in before : \A j \in before : i <= j
         IN SubSeq(sorted, 1, at - 1) \o <<v>> \o SubSeq(sorted, at, Len(sorted))

discoverConversations(local, remote, shared, localOnly) ==
    LET afterLocal == setLocal(<<>>, local)
        afterRemote == mergeRemote(afterLocal,
                                   IF localOnly THEN <<>> ELSE remote)
    IN sortByUpdatedAt(addShared(afterRemote, shared))

\* what a loader returns for a conversation: loadSharedConversations sets
\* the source, the other two have none yet
loaded(loader, key, updatedAt) ==
    [client |-> key[1], id |-> key[2], updatedAt |-> updatedAt,
     content |-> loader,
     source |-> IF loader = "shared" THEN "shared" ELSE "none"]

keysOf(list) == {combinedKey(list[i]) : i \in 1..Len(list)}

\* a loader finds one more conversation: a transcript file, a session of
\* the wallet's archive (one conversation per session), or an import (two
\* imports can be of the same conversation)
ConversationLoaded(loader, key, updatedAt) ==
    /\ discover.pc = "loading"
    /\ Len(discover[loader]) < MaxListed
    /\ loader # "shared" => key \notin keysOf(discover[loader])
    /\ discover' = [discover EXCEPT
                      ![loader] = Append(@, loaded(loader, key, updatedAt))]
    /\ UNCHANGED <<db, archive, run, restore, snap, confirmed, lastEvent, calls,
                   tool, conv, query, ingest, download, redeem, token, server,
                   watch>>

\* discoverConversations(options) is called and returns
DiscoverConversations(localOnly) ==
    /\ discover.pc = "loading"
    /\ \E result \in {discoverConversations(discover.local, discover.remote,
                                             discover.shared, localOnly)} :
          discover' = [discover EXCEPT !.pc = "returned",
                                       !.localOnly = localOnly,
                                       !.result = result]
    /\ UNCHANGED <<db, archive, run, restore, snap, confirmed, lastEvent, calls,
                   tool, conv, query, ingest, download, redeem, token, server,
                   watch>>

NextDiscover ==
    \/ discover.pc = "loading"
          /\ \E loader \in Loaders, key \in ConversationKeys,
                updatedAt \in UpdatedAts :
                ConversationLoaded(loader, key, updatedAt)
    \/ \E localOnly \in BOOLEAN : DiscoverConversations(localOnly)

SpecDiscover == Init /\ [][NextDiscover]_vars

\* ------------------------------------- the callback, invoked while suspended
\* the client appends messages to the transcript
TranscriptGrows(m) ==
    /\ m > watch.messages
    /\ watch' = [watch EXCEPT !.messages = m]
    /\ UNCHANGED <<db, archive, run, restore, snap, confirmed, lastEvent, calls,
                   tool, conv, query, ingest, download, redeem, token, server, discover>>

\* the watcher calls the callback with the session as it is now, whether
\* or not an earlier invocation is suspended: the cursor is read and
\* pushConversationDelta is awaited; with an empty tail it returns no
\* transaction and the callback returns
CallbackInvoked(c) ==
    /\ watch.callback[c].pc = "returned"
    /\ \A b \in Callbacks : b < c => watch.callback[b].pc # "returned"
    /\ watch.emits < MaxEmits
    /\ LET n == watch.messages
           offset == lastSynced(db)
       IN watch' = [watch EXCEPT
                      !.emits = @ + 1,
                      !.callback[c] =
                          IF n <= offset THEN Returned
                          ELSE [pc |-> "uploading", n |-> n,
                                lastSynced |-> offset]]
    /\ UNCHANGED <<db, archive, run, restore, snap, confirmed, lastEvent, calls,
                   tool, conv, query, ingest, download, redeem, token, server, discover>>

\* pushConversationDelta resolves with the transaction ids of the segment
\* [lastSynced, n): setMeta(db, stateKey, String(messages.length))
SegmentUploaded(c) ==
    /\ watch.callback[c].pc = "uploading"
    /\ watch' = [watch EXCEPT
                   !.segments =
                       Append(@, [offset |-> watch.callback[c].lastSynced,
                                  count |-> watch.callback[c].n
                                              - watch.callback[c].lastSynced]),
                   !.callback[c] = Returned]
    /\ db' = setMeta(db, stateKey, String(watch.callback[c].n))
    /\ UNCHANGED <<archive, run, restore, snap, confirmed, lastEvent, calls,
                   tool, conv, query, ingest, download, redeem, token, server, discover>>

\* pushConversationDelta rejects before anything of the segment is on the
\* archive: the catch block
SegmentRejected(c) ==
    /\ watch.callback[c].pc = "uploading"
    /\ watch' = [watch EXCEPT !.callback[c] = Returned]
    /\ db' = conversationCatch(db, watch.callback[c].n)
    /\ UNCHANGED <<archive, run, restore, snap, confirmed, lastEvent, calls,
                   tool, conv, query, ingest, download, redeem, token, server, discover>>

NextReentrant ==
    \/ \E m \in 1..MaxTranscript : TranscriptGrows(m)
    \/ \E c \in Callbacks : CallbackInvoked(c)
    \/ \E c \in Callbacks : SegmentUploaded(c)
    \/ \E c \in Callbacks : SegmentRejected(c)

SpecReentrant == Init /\ [][NextReentrant]_vars

\* ------------------------------------------------- paginated queries
\* One call of queryShards or queryConversationChunks (query.fn).
\* query.pageCount is the loop's counter, query.requests the gqlRequest
\* calls made, query.endpoint the endpoint gqlRequest is fetching from,
\* query.tried the endpoints that have answered this request with a
\* failure, query.collected the pages whose edges were pushed onto the
\* local array, query.result what the caller receives.
Endpoints == 1..NumEndpoints
PaginatedQueries == {"queryShards", "queryConversationChunks"}
FetchFailures == {"network", "non2xx", "badJson"}

\* mutant: the page cap is not enforced
exceedsCap_never(pageCount) == FALSE

\* if (pageCount > GQL_MAX_PAGES) throw
exceedsCap(pageCount) == pageCount > GQL_MAX_PAGES

\* the head of the while (true) loop up to the call of gqlRequest
loopHead(q) ==
    IF exceedsCap(q.pageCount + 1)
    THEN [q EXCEPT !.pageCount = @ + 1, !.pc = "thrown", !.error = "pagination",
                   !.endpoint = 0, !.tried = {}]
    ELSE [q EXCEPT !.pageCount = @ + 1, !.pc = "request", !.requests = @ + 1,
                   !.endpoint = 1, !.tried = {}]

\* a caller starts a paginated query
QueryStarts(fn) ==
    /\ query.pc \in {"idle", "returned", "thrown"}
    /\ query' = loopHead([IdleQuery EXCEPT !.fn = fn])
    /\ UNCHANGED <<db, archive, run, restore, snap, confirmed, lastEvent, calls,
                   tool, conv, cli>>

\* gqlRequest: fetch rejects, the status is not 2xx or the body is not
\* JSON; the catch block records the error and the loop goes on to the
\* next endpoint; after the last one gqlRequest throws, and so does the
\* query
FetchFails(kind) ==
    /\ query.pc = "request"
    /\ query' = IF query.endpoint < NumEndpoints
                THEN [query EXCEPT !.tried = @ \cup {query.endpoint},
                                   !.endpoint = @ + 1]
                ELSE [query EXCEPT !.tried = @ \cup {query.endpoint},
                                   !.pc = "thrown", !.error = "allGatewaysFailed"]
    /\ UNCHANGED <<db, archive, run, restore, snap, confirmed, lastEvent, calls,
                   tool, conv, cli>>

\* the endpoint answers 2xx with a JSON body whose errors array is not
\* empty: gqlRequest returns the body and the query throws
FetchReturnsErrors ==
    /\ query.pc = "request"
    /\ query' = [query EXCEPT !.tried = @ \cup {query.endpoint},
                              !.pc = "thrown", !.error = "graphqlErrors"]
    /\ UNCHANGED <<db, archive, run, restore, snap, confirmed, lastEvent, calls,
                   tool, conv, cli>>

\* the endpoint answers with a page: the rest of the loop body and the
\* head of the next iteration
FetchReturnsPage(page) ==
    /\ query.pc = "request"
    /\ ~page.edges => ~page.cursor
    /\ query' =
          IF ~page.edges
          THEN [query EXCEPT !.last = page, !.pc = "returned", !.result = "list"]
          ELSE IF ~page.hasNextPage \/ ~page.cursor
          THEN [query EXCEPT !.last = page, !.collected = @ + 1,
                             !.pc = "returned", !.result = "list"]
          ELSE loopHead([query EXCEPT !.last = page, !.collected = @ + 1,
                                      !.after = TRUE])
    /\ UNCHANGED <<db, archive, run, restore, snap, confirmed, lastEvent, calls,
                   tool, conv, cli>>

NextQuery ==
    \/ \E fn \in PaginatedQueries : QueryStarts(fn)
    \/ \E kind \in FetchFailures : FetchFails(kind)
    \/ FetchReturnsErrors
    \/ \E page \in [edges : BOOLEAN, hasNextPage : BOOLEAN, cursor : BOOLEAN] :
          FetchReturnsPage(page)

SpecQuery == Init /\ [][NextQuery]_vars

\* ------------------------------------------- queryShards: edge filter
TxIds == 1..NumTxIds
\* the wallet the query is for
walletAddress == <<"a", "B">>

TypeTags == {Undefined, <<"delta">>, <<"snapshot">>, <<"identity">>,
             <<"conversation">>}
WalletTags == {Undefined, <<<<>>>>, <<<<"a", "B">>>>, <<<<"A", "b">>>>,
               <<<<"a", "a">>>>}
SignatureTags == {Undefined, <<<<>>>>, <<<<" ">>>>, <<<<" ", "s">>>>, <<<<"s">>>>}
VersionTags == {Undefined, <<<<>>>>, <<<<"0">>>>, <<<<"1">>>>, <<<<"2">>>>,
                <<<<"-", "1">>>>, <<<<"x">>>>, <<<<"2", "x">>>>,
                <<<<"1", ".", "5">>>>, <<<<" ", "3">>>>}

\* the edges a gateway can answer a shard query with
ShardEdges ==
    [id : TxIds, Type : TypeTags, Wallet : WalletTags,
     Signature : SignatureTags, Version : VersionTags]

\* tagMap.get(name) ?? ""
orEmpty(tag) == IF Defined(tag) THEN tag[1] ELSE <<>>

\* mutant: an identity transaction needs no signature
shardOfEdge_unsignedIdentity(edge, address) ==
    LET wallet == orEmpty(edge.Wallet)
        signature == trim(orEmpty(edge.Signature))
        parsedVersion == NumberParseInt(orEmpty(edge.Version))
    IN IF edge.Type \notin {<<"delta">>, <<"snapshot">>, <<"identity">>}
       THEN <<>>
       ELSE IF wallet = <<>> \/ toLowerCase(wallet) # toLowerCase(address)
       THEN <<>>
       ELSE IF edge.Type \in {<<"delta">>, <<"snapshot">>}
       THEN IF orEmpty(edge.Version) = <<>> THEN <<>>
            ELSE IF ~isFinite(parsedVersion) \/ parsedVersion.value < 1 THEN <<>>
            ELSE IF signature = <<>> THEN <<>>
            ELSE <<[txId |-> edge.id, version |-> parsedVersion.value,
                    type |-> edge.Type[1], signature |-> signature,
                    wallet |-> wallet]>>
       ELSE <<[txId |-> edge.id, version |-> 0, type |-> edge.Type[1],
               signature |-> signature, wallet |-> wallet]>>

\* the body of `for (const edge of edges)` after the seenTxIds test: <<>>
\* when the edge is skipped, else the ShardInfo pushed
shardOfEdge(edge, address) ==
    LET wallet == orEmpty(edge.Wallet)
        signature == trim(orEmpty(edge.Signature))
        parsedVersion == NumberParseInt(orEmpty(edge.Version))
    IN IF edge.Type \notin {<<"delta">>, <<"snapshot">>, <<"identity">>}
       THEN <<>>
       ELSE IF wallet = <<>> \/ toLowerCase(wallet) # toLowerCase(address)
       THEN <<>>
       ELSE IF edge.Type \in {<<"delta">>, <<"snapshot">>}
       THEN IF orEmpty(edge.Version) = <<>> THEN <<>>
            ELSE IF ~isFinite(parsedVersion) \/ parsedVersion.value < 1 THEN <<>>
            ELSE IF signature = <<>> THEN <<>>
            ELSE <<[txId |-> edge.id, version |-> parsedVersion.value,
                    type |-> edge.Type[1], signature |-> signature,
                    wallet |-> wallet]>>
       ELSE IF signature = <<>> THEN <<>>
       ELSE <<[txId |-> edge.id, version |-> 0, type |-> edge.Type[1],
               signature |-> signature, wallet |-> wallet]>>

\* one iteration of `for (const edge of edges)`, on any page
ShardEdge(edge) ==
    /\ ingest.fn \in {"none", "queryShards"}
    /\ ~ingest.returned
    /\ ingest.edges < MaxEdges
    /\ ingest' =
          IF edge.id \in ingest.seenTxIds
          THEN [ingest EXCEPT !.fn = "queryShards", !.edges = @ + 1]
          ELSE [ingest EXCEPT !.fn = "queryShards", !.edges = @ + 1,
                              !.seenTxIds = @ \cup {edge.id},
                              !.shards = @ \o shardOfEdge(edge, walletAddress)]
    /\ UNCHANGED <<db, archive, run, restore, snap, confirmed, lastEvent, calls,
                   tool, conv, query, download, redeem, token, server, watch, discover>>

\* the loop has ended: shards.sort((a, b) => a.version - b.version); return
ShardsReturned ==
    /\ ingest.fn = "queryShards"
    /\ ~ingest.returned
    /\ ingest' = [ingest EXCEPT !.shards = sortByVersion(@), !.returned = TRUE]
    /\ UNCHANGED <<db, archive, run, restore, snap, confirmed, lastEvent, calls,
                   tool, conv, query, download, redeem, token, server, watch, discover>>

NextShardQuery ==
    \/ \E edge \in ShardEdges : ShardEdge(edge)
    \/ ShardsReturned

SpecShardQuery == Init /\ [][NextShardQuery]_vars

\* ---------------------------------- queryConversationChunks: edge filter
ClientTags == {Undefined, <<"cursor">>, <<"vim">>}
ProjectTags == {Undefined, <<<<"p">>>>}
SessionTags == {<<<<>>>>, <<<<"s">>>>}
ChunkTags == {Undefined, <<<<"1", "/", "1">>>>, <<<<"1", "/", "2">>>>,
              <<<<"2", "/", "1">>>>, <<<<"0", "/", "1">>>>, <<<<"x">>>>}
OffsetTags == {Undefined, <<<<"0">>>>, <<<<"-", "1">>>>, <<<<"2", "x">>>>}
CountTags == {Undefined, <<<<"3">>>>, <<<<"x">>>>}

\* the edges a gateway can answer a conversation query with
ChunkEdges ==
    [id : TxIds, Wallet : {<<<<"A", "b">>>>, <<<<"a", "a">>>>},
     Client : ClientTags, Project : ProjectTags, Session : SessionTags,
     Chunk : ChunkTags, Offset : OffsetTags, Count : CountTags,
     Signature : {Undefined, <<<<"s">>>>}]

\* s.split("/")
RECURSIVE split(_)
split(s) ==
    IF \A i \in 1..Len(s) : s[i] # "/" THEN <<s>>
    ELSE LET i == CHOOSE i \in 1..Len(s) :
                     s[i] = "/" /\ \A j \in 1..(i - 1) : s[j] # "/"
         IN <<SubSeq(s, 1, i - 1)>> \o split(SubSeq(s, i + 1, Len(s)))

\* parts[i] ?? "1"
partOr1(parts, i) == IF i <= Len(parts) THEN parts[i] ELSE <<"1">>

\* raw ? Number.parseInt(raw, 10) : 0
parseOr0(tag) ==
    IF Defined(tag) /\ tag[1] # <<>> THEN NumberParseInt(tag[1])
    ELSE [finite |-> TRUE, value |-> 0]

\* the body of `for (const edge of edges)` after the seenTxIds test: <<>>
\* when the edge is skipped, else the ConversationChunkInfo pushed (all
\* rows carry one Timestamp here)
chunkOfEdge(edge, address) ==
    LET wallet == orEmpty(edge.Wallet)
        project == orEmpty(edge.Project)
        session == orEmpty(edge.Session)
        rawChunk == IF Defined(edge.Chunk) THEN edge.Chunk[1] ELSE <<"1", "/", "1">>
        chunkParts == split(rawChunk)
        chunkIndex == NumberParseInt(partOr1(chunkParts, 1))
        chunkTotal == NumberParseInt(partOr1(chunkParts, 2))
        offset == parseOr0(edge.Offset)
        count == parseOr0(edge.Count)
        signature == trim(orEmpty(edge.Signature))
    IN IF wallet = <<>> \/ toLowerCase(wallet) # toLowerCase(address) THEN <<>>
       ELSE IF edge.Client \notin {<<"cursor">>, <<"claude-code">>} THEN <<>>
       ELSE IF project = <<>> \/ session = <<>> THEN <<>>
       ELSE IF \/ ~isFinite(chunkIndex) \/ ~isFinite(chunkTotal)
               \/ chunkIndex.value < 1 \/ chunkTotal.value < 1
               \/ chunkIndex.value > chunkTotal.value THEN <<>>
       ELSE IF ~isFinite(offset) \/ offset.value < 0 THEN <<>>
       ELSE IF ~isFinite(count) \/ count.value < 0 THEN <<>>
       ELSE IF signature = <<>> THEN <<>>
       ELSE <<[txId |-> edge.id, wallet |-> wallet, client |-> edge.Client[1],
               project |-> project, session |-> session,
               chunkIndex |-> chunkIndex.value, chunkTotal |-> chunkTotal.value,
               offset |-> offset.value, count |-> count.value,
               signature |-> signature]>>

\* the comparator of chunks.sort: session, then offset, then chunkIndex
\* (the sessions and timestamps here are equal)
chunkBefore(a, b) ==
    \/ a.offset < b.offset
    \/ a.offset = b.offset /\ a.chunkIndex < b.chunkIndex

\* Array.prototype.sort with that comparator (stable)
RECURSIVE sortChunks(_)
sortChunks(chunks) ==
    IF Len(chunks) <= 1 THEN chunks
    ELSE LET rest == sortChunks(Tail(chunks))
             first == Head(chunks)
             smaller == SelectSeq(rest, LAMBDA c : chunkBefore(c, first))
             others == SelectSeq(rest, LAMBDA c : ~chunkBefore(c, first))
         IN smaller \o <<first>> \o others

\* one iteration of `for (const edge of edges)`, on any page
ChunkEdge(edge) ==
    /\ ingest.fn \in {"none", "queryConversationChunks"}
    /\ ~ingest.returned
    /\ ingest.edges < MaxEdges
    /\ ingest' =
          IF edge.id \in ingest.seenTxIds
          THEN [ingest EXCEPT !.fn = "queryConversationChunks", !.edges = @ + 1]
          ELSE [ingest EXCEPT
                  !.fn = "queryConversationChunks", !.edges = @ + 1,
                  !.seenTxIds = @ \cup {edge.id},
                  !.shards = @ \o chunkOfEdge(edge, walletAddress),
                  !.rows = IF chunkOfEdge(edge, walletAddress) = <<>>
                           THEN @ ELSE Append(@, edge)]
    /\ UNCHANGED <<db, archive, run, restore, snap, confirmed, lastEvent, calls,
                   tool, conv, query, download, redeem, token, server, watch, discover>>

\* the loop has ended: chunks.sort(...); return chunks
ChunksReturned ==
    /\ ingest.fn = "queryConversationChunks"
    /\ ~ingest.returned
    /\ ingest' = [ingest EXCEPT !.shards = sortChunks(@), !.returned = TRUE]
    /\ UNCHANGED <<db, archive, run, restore, snap, confirmed, lastEvent, calls,
                   tool, conv, query, download, redeem, token, server, watch, discover>>

NextChunkQuery ==
    \/ \E edge \in ChunkEdges : ChunkEdge(edge)
    \/ ChunksReturned

SpecChunkQuery == Init /\ [][NextChunkQuery]_vars

\* ------------------------------------------------------ downloadShard
\* download.maxBytes is <<>> when the caller passes no cap, download.result
\* <<n>> when n bytes were returned.
RECURSIVE decimal(_)
\* the decimal digits of n, as a header value
decimal(n) ==
    IF n < 10 THEN <<(<<"0", "1", "2", "3", "4", "5", "6", "7", "8", "9">>)[n + 1]>>
    ELSE decimal(n \div 10) \o decimal(n % 10)

BodyLengths == 0..(MaxBytes + 1)
ContentLengths ==
    {Undefined, <<<<>>>>, <<<<"x">>>>} \cup {<<decimal(n)>> : n \in BodyLengths}

\* mutant: the Content-Length header is not looked at
declaredTooLarge_never(maxBytes, contentLength) == FALSE

\* typeof maxBytes === "number", the header is there, it parses to a finite
\* number and that number is > maxBytes
declaredTooLarge(maxBytes, contentLength) ==
    /\ Defined(maxBytes)
    /\ Defined(contentLength)
    /\ contentLength[1] # <<>>
    /\ isFinite(NumberParseInt(contentLength[1]))
    /\ NumberParseInt(contentLength[1]).value > maxBytes[1]

\* typeof maxBytes === "number" && buffer.byteLength > maxBytes
bodyTooLarge(maxBytes, byteLength) ==
    Defined(maxBytes) /\ byteLength > maxBytes[1]

\* the catch block: the error is recorded and the loop goes on to the next
\* endpoint; after the last one the aggregated error is thrown
nextEndpoint(d, attempt) ==
    IF d.endpoint < NumEndpoints
    THEN [d EXCEPT !.endpoint = @ + 1, !.attempts = Append(@, attempt)]
    ELSE [d EXCEPT !.pc = "thrown", !.attempts = Append(@, attempt)]

DownloadStarts(maxBytes) ==
    /\ download.pc \in {"idle", "returned", "thrown"}
    /\ download' = [IdleDownload EXCEPT !.pc = "fetch", !.maxBytes = maxBytes,
                                        !.endpoint = 1]
    /\ UNCHANGED <<db, archive, run, restore, snap, confirmed, lastEvent, calls,
                   tool, conv, query, ingest, redeem, token, server, watch, discover>>

\* fetch rejects or the status is not 2xx
DownloadFetchFails ==
    /\ download.pc = "fetch"
    /\ download' = nextEndpoint(download, [contentLength |-> Undefined,
                                           bodyRead |-> FALSE, byteLength |-> 0])
    /\ UNCHANGED <<db, archive, run, restore, snap, confirmed, lastEvent, calls,
                   tool, conv, query, ingest, redeem, token, server, watch, discover>>

\* the endpoint answers 2xx with a Content-Length header (or none) and a
\* body of byteLength bytes, which arrayBuffer() delivers or fails to
EndpointAnswers(contentLength, byteLength, delivered) ==
    /\ download.pc = "fetch"
    /\ download' =
          IF declaredTooLarge(download.maxBytes, contentLength)
          THEN nextEndpoint(download, [contentLength |-> contentLength,
                                       bodyRead |-> FALSE, byteLength |-> 0])
          ELSE IF ~delivered \/ bodyTooLarge(download.maxBytes, byteLength)
          THEN nextEndpoint(download, [contentLength |-> contentLength,
                                       bodyRead |-> TRUE,
                                       byteLength |-> byteLength])
          ELSE [download EXCEPT
                  !.pc = "returned", !.result = <<byteLength>>,
                  !.attempts = Append(@, [contentLength |-> contentLength,
                                          bodyRead |-> TRUE,
                                          byteLength |-> byteLength])]
    /\ UNCHANGED <<db, archive, run, restore, snap, confirmed, lastEvent, calls,
                   tool, conv, query, ingest, redeem, token, server, watch, discover>>

NextDownload ==
    \/ \E maxBytes \in {Undefined} \cup {<<n>> : n \in 0..MaxBytes} :
          DownloadStarts(maxBytes)
    \/ DownloadFetchFails
    \/ \E contentLength \in ContentLengths, byteLength \in BodyLengths,
          delivered \in BOOLEAN :
          EndpointAnswers(contentLength, byteLength, delivered)

SpecDownload == Init /\ [][NextDownload]_vars

\* ------------------------------------------------------ sharme sync <url>
\* One syncCommand process at a time, after extractToken and
\* decodeShareToken have returned the share id, the key and the optional
\* tx id.  redeem.imports is the shared_conversation_imports table in
\* rowid order.  What a download returns is one of: the sharer's blob
\* ("genuine"), a blob the token's key decrypts to a payload that is not a
\* conversation ("malformed"), any other bytes ("other").
ShareIds == 1..NumShares
\* const MAX_SHARE_BYTES = 2 * 1024 * 1024
MAX_SHARE_BYTES == 2097152

\* a call downloadShard(txId, MAX_SHARE_BYTES)
shareDownload(txId) == [txId |-> txId, maxBytes |-> MAX_SHARE_BYTES]
Blobs == {"genuine", "malformed", "other"}

\* what queryConversationShare can return: the newest transaction tagged
\* with the share id, its Signature tag (absent, or a signature over one of
\* the blobs) and its Wallet tag (empty when absent)
ShareInfos ==
    [txId : TxIds, signature : {Undefined} \cup {<<b>> : b \in Blobs},
     wallet : {"", "w"}]

\* verifySignature(encrypted, signature, wallet)
verifySignature(encrypted, signature, wallet) == signature = encrypted

\* decrypt(encrypted, decoded.key) and JSON.parse succeed
decrypts(encrypted) == encrypted \in {"genuine", "malformed"}

\* validatePayload returns the conversation
validPayload(encrypted) == encrypted = "genuine"

\* SELECT 1 FROM shared_conversation_imports WHERE share_id = ?
hasSharedConversationImport(imports, shareId) ==
    \E i \in 1..Len(imports) : imports[i].share_id = shareId

\* INSERT INTO shared_conversation_imports: share_id is the primary key
saveSharedConversationImport(imports, entry) ==
    Append(imports, [share_id |-> entry.shareId, tx_id |-> entry.txId])

\* mutant: the lookup is made whatever the direct download gave
needsLookup_always(encrypted) == TRUE

\* if (!encrypted)
needsLookup(encrypted) == encrypted = Undefined

\* mutant: the signature of the share record is not checked
mustVerify_never(shareInfo) == FALSE

\* if (shareInfo?.signature && shareInfo.wallet)
mustVerify(shareInfo) ==
    /\ Defined(shareInfo)
    /\ Defined(shareInfo[1].signature)
    /\ shareInfo[1].wallet # ""

\* syncCommand from line 51 on, with the bytes it has: verification,
\* decryption, validation, the already-imported test and the insert run
\* without suspending
finishRedemption(r0, encrypted) ==
    LET r == [r0 EXCEPT !.encrypted = <<encrypted>>]
        verify == mustVerify(r.shareInfo)
        valid == verifySignature(encrypted, r.shareInfo[1].signature[1],
                                 r.shareInfo[1].wallet)
    IN IF verify /\ ~valid
       THEN [r EXCEPT !.pc = "done", !.verifyCalled = TRUE,
                      !.outcome = "verification failed"]
       ELSE IF ~decrypts(encrypted)
       THEN [r EXCEPT !.pc = "done", !.verifyCalled = verify, !.decrypted = TRUE,
                      !.outcome = "could not decrypt"]
       ELSE IF ~validPayload(encrypted)
       THEN [r EXCEPT !.pc = "done", !.verifyCalled = verify, !.decrypted = TRUE,
                      !.outcome = "invalid payload"]
       ELSE IF hasSharedConversationImport(r.imports, r.shareId)
       THEN [r EXCEPT !.pc = "done", !.verifyCalled = verify, !.decrypted = TRUE,
                      !.outcome = "already imported"]
       ELSE [r EXCEPT !.pc = "done", !.verifyCalled = verify, !.decrypted = TRUE,
                      !.outcome = "imported",
                      !.imports = saveSharedConversationImport(@,
                                     [shareId |-> r.shareId,
                                      txId |-> IF Defined(r.txId) THEN r.txId[1]
                                               ELSE 0])]

\* after the direct download, or at once when the token has no tx id: the
\* Share-Id query is issued if there are no bytes yet
afterDirect(r, encrypted) ==
    IF needsLookup(encrypted)
    THEN [r EXCEPT !.pc = "query", !.queries = @ + 1]
    ELSE finishRedemption(r, encrypted[1])

\* `sharme sync <url>` with a token that decodes: the direct download is
\* awaited when the token carries a tx id
SyncStarts(shareId, tokenTx) ==
    /\ redeem.pc \in {"idle", "done"}
    /\ redeem.runs < MaxRedemptions
    /\ LET r == [IdleRedeem EXCEPT !.shareId = shareId, !.tokenTx = tokenTx,
                                   !.txId = tokenTx, !.imports = redeem.imports,
                                   !.importsAtStart = redeem.imports,
                                   !.runs = redeem.runs + 1]
       IN redeem' = IF Defined(tokenTx)
                    THEN [r EXCEPT !.pc = "direct",
                                   !.downloads = Append(@, shareDownload(tokenTx[1]))]
                    ELSE afterDirect(r, Undefined)
    /\ UNCHANGED <<db, archive, run, restore, snap, confirmed, lastEvent, calls,
                   tool, conv, query, ingest, download, token, server, watch, discover>>

\* downloadShard(txId, MAX_SHARE_BYTES) resolves with bytes
DirectDownloadResolves(encrypted) ==
    /\ redeem.pc = "direct"
    /\ redeem' = afterDirect([redeem EXCEPT !.direct = "ok"], <<encrypted>>)
    /\ UNCHANGED <<db, archive, run, restore, snap, confirmed, lastEvent, calls,
                   tool, conv, query, ingest, download, token, server, watch, discover>>

\* downloadShard rejects: catch { encrypted = null }
DirectDownloadRejects ==
    /\ redeem.pc = "direct"
    /\ redeem' = afterDirect([redeem EXCEPT !.direct = "failed"], Undefined)
    /\ UNCHANGED <<db, archive, run, restore, snap, confirmed, lastEvent, calls,
                   tool, conv, query, ingest, download, token, server, watch, discover>>

\* queryConversationShare resolves with a record: its transaction is
\* downloaded
ShareQueryResolves(shareInfo) ==
    /\ redeem.pc = "query"
    /\ redeem' = [redeem EXCEPT !.pc = "second", !.shareInfo = <<shareInfo>>,
                                !.txId = <<shareInfo.txId>>,
                                !.downloads = Append(@, shareDownload(shareInfo.txId))]
    /\ UNCHANGED <<db, archive, run, restore, snap, confirmed, lastEvent, calls,
                   tool, conv, query, ingest, download, token, server, watch, discover>>

\* queryConversationShare resolves with null ("No share found") or rejects
ShareQueryFails(found) ==
    /\ redeem.pc = "query"
    /\ redeem' = [redeem EXCEPT !.pc = "done",
                                !.outcome = IF found THEN "query failed"
                                            ELSE "no share found"]
    /\ UNCHANGED <<db, archive, run, restore, snap, confirmed, lastEvent, calls,
                   tool, conv, query, ingest, download, token, server, watch, discover>>

\* the download of the resolved transaction resolves with bytes
SecondDownloadResolves(encrypted) ==
    /\ redeem.pc = "second"
    /\ redeem' = finishRedemption(redeem, encrypted)
    /\ UNCHANGED <<db, archive, run, restore, snap, confirmed, lastEvent, calls,
                   tool, conv, query, ingest, download, token, server, watch, discover>>

\* the download of the resolved transaction rejects: syncCommand rejects
SecondDownloadRejects ==
    /\ redeem.pc = "second"
    /\ redeem' = [redeem EXCEPT !.pc = "done", !.outcome = "download failed"]
    /\ UNCHANGED <<db, archive, run, restore, snap, confirmed, lastEvent, calls,
                   tool, conv, query, ingest, download, token, server, watch, discover>>

NextRedeem ==
    \/ \E shareId \in ShareIds, tokenTx \in {Undefined} \cup {<<t>> : t \in TxIds} :
          SyncStarts(shareId, tokenTx)
    \/ \E encrypted \in Blobs : DirectDownloadResolves(encrypted)
    \/ DirectDownloadRejects
    \/ \E shareInfo \in ShareInfos : ShareQueryResolves(shareInfo)
    \/ \E found \in BOOLEAN : ShareQueryFails(found)
    \/ \E encrypted \in Blobs : SecondDownloadResolves(encrypted)
    \/ SecondDownloadRejects

SpecRedeem == Init /\ [][NextRedeem]_vars

\* ----------------------------------------------------------- share tokens
\* src/src/cli/share.ts: a share token is base64url(utf-8(JSON)) of
\* {v, sid, k, t}; `sharme share` prints SHARE_URL_PREFIX followed by the
\* token and `sharme sync` takes the URL or the token back.  Texts are
\* sequences of characters and byte strings sequences of 0..255, so that the
\* encodings are computed and not assumed to be inverse to each other.

\* Body of a value, the value being computed once: const v = value; Body(v)
bind(value, Body(_)) == CHOOSE result \in {Body(v) : v \in {value}} : TRUE

\* the printable ASCII characters, code 32 first
Ascii ==
    <<" ", "!", "\"", "#", "$", "%", "&", "'", "(", ")", "*", "+", ",", "-",
      ".", "/", "0", "1", "2", "3", "4", "5", "6", "7", "8", "9", ":", ";",
      "<", "=", ">", "?", "@", "A", "B", "C", "D", "E", "F", "G", "H", "I",
      "J", "K", "L", "M", "N", "O", "P", "Q", "R", "S", "T", "U", "V", "W",
      "X", "Y", "Z", "[", "\\", "]", "^", "_", "GRAVE", "a", "b", "c", "d", "e",
      "f", "g", "h", "i", "j", "k", "l", "m", "n", "o", "p", "q", "r", "s",
      "t", "u", "v", "w", "x", "y", "z", "{", "|", "}", "~">>

\* what a byte that is no printable ASCII character decodes to
ReplacementChar == "U+FFFD"

\* the code of each of these characters
charCode ==
    [c \in {Ascii[i] : i \in 1..Len(Ascii)} |->
        31 + CHOOSE i \in 1..Len(Ascii) : Ascii[i] = c]

\* Buffer.from(text, "utf-8") on ASCII text
utf8Bytes(text) == bind(text, LAMBDA t : [i \in 1..Len(t) |-> charCode[t[i]]])

\* buffer.toString("utf-8"): never throws, bytes that are not text are replaced
utf8Text(bytes) ==
    bind(bytes, LAMBDA b :
        [i \in 1..Len(b) |->
            IF b[i] >= 32 /\ b[i] <= 126 THEN Ascii[b[i] - 31]
            ELSE ReplacementChar])

\* the base64url alphabet, value 0 first
Base64Url ==
    <<"A", "B", "C", "D", "E", "F", "G", "H", "I", "J", "K", "L", "M", "N",
      "O", "P", "Q", "R", "S", "T", "U", "V", "W", "X", "Y", "Z", "a", "b",
      "c", "d", "e", "f", "g", "h", "i", "j", "k", "l", "m", "n", "o", "p",
      "q", "r", "s", "t", "u", "v", "w", "x", "y", "z", "0", "1", "2", "3",
      "4", "5", "6", "7", "8", "9", "-", "_">>

\* the 6-bit groups of a byte string, the last one filled with zero bits:
\* group j starts at bit 6 * (j - 1) of the string
sextetsOf(bytes) ==
    bind(bytes, LAMBDA b :
        [j \in 1..((8 * Len(b) + 5) \div 6) |->
            LET bit == 6 * (j - 1)
                at == bit \div 8 + 1
                pair == b[at] * 256 + (IF at < Len(b) THEN b[at + 1] ELSE 0)
            IN (pair \div 2^(10 - (bit % 8))) % 64])

\* buffer.toString("base64url"): no padding
toBase64Url(bytes) ==
    bind(sextetsOf(bytes), LAMBDA six :
        [i \in 1..Len(six) |-> Base64Url[six[i] + 1]])

\* the whole bytes a run of 6-bit groups holds: byte j starts at bit
\* 8 * (j - 1) of the run
bytesOf(groups) ==
    bind(groups, LAMBDA six :
        [j \in 1..((6 * Len(six)) \div 8) |->
            LET bit == 8 * (j - 1)
                g == bit \div 6 + 1
            IN ((six[g] * 64 + six[g + 1]) \div 2^(4 - (bit % 6))) % 256])

\* the 6 bits each character of the alphabet stands for
unbase64 ==
    [c \in {Base64Url[i] : i \in 1..Len(Base64Url)} |->
        (CHOOSE i \in 1..Len(Base64Url) : Base64Url[i] = c) - 1]

\* Buffer.from(text, "base64url"): never throws; a character outside the
\* alphabet is skipped and the characters around it are decoded
fromBase64Url(text) ==
    bind(SelectSeq(text, LAMBDA c : c \in DOMAIN unbase64), LAMBDA legal :
        bytesOf([i \in 1..Len(legal) |-> unbase64[legal[i]]]))

\* value.name: the member written last under the name, undefined without one
member(value, name) ==
    LET at == {i \in 1..Len(value.members) : value.members[i].name = name}
    IN IF at = {} THEN JsUndefined
       ELSE value.members[CHOOSE i \in at : \A j \in at : j <= i].value

\* the first position in text of a character in stops, Len(text) + 1 without
firstOf(text, stops) ==
    bind(text, LAMBDA t :
        bind({i \in 1..Len(t) : t[i] \in stops}, LAMBDA at :
            IF at = {} THEN Len(t) + 1 ELSE CHOOSE i \in at : \A j \in at : i <= j))

RECURSIVE quote(_)
\* the characters of a string inside a JSON string literal: a quote and a
\* backslash are written behind a backslash
quote(s) ==
    bind(s, LAMBDA t :
        bind(firstOf(t, {"\"", "\\"}), LAMBDA i :
            IF i > Len(t) THEN t
            ELSE SubSeq(t, 1, i - 1) \o <<"\\", t[i]>>
                 \o quote(SubSeq(t, i + 1, Len(t)))))

RECURSIVE JSONstringify(_)
RECURSIVE stringifyMembers(_, _)
\* JSON.stringify of a value: a member whose value is undefined is left out
JSONstringify(value) ==
    bind(value, LAMBDA v :
        IF v.type = "null" THEN <<"n", "u", "l", "l">>
        ELSE IF v.type = "number" THEN decimal(v.num)
        ELSE IF v.type = "string" THEN <<"\"">> \o quote(v.str) \o <<"\"">>
        ELSE <<"{">> \o stringifyMembers(v.members, TRUE) \o <<"}">>)
stringifyMembers(members, first) ==
    IF Len(members) = 0 THEN <<>>
    ELSE IF Head(members).value.type = "undefined"
    THEN stringifyMembers(Tail(members), first)
    ELSE (IF first THEN <<>> ELSE <<",">>)
         \o <<"\"">> \o quote(Head(members).name) \o <<"\"", ":">>
         \o JSONstringify(Head(members).value)
         \o stringifyMembers(Tail(members), FALSE)

\* a parse that stopped: JSON.parse throws a SyntaxError
SyntaxError == [ok |-> FALSE, value |-> JsUndefined, next |-> 0]
parsed(value, next) == [ok |-> TRUE, value |-> value, next |-> next]

RECURSIVE skipWhitespace(_, _)
skipWhitespace(text, i) ==
    IF i <= Len(text) /\ text[i] = " " THEN skipWhitespace(text, i + 1) ELSE i

RECURSIVE parseString(_, _, _)
\* the string literal whose opening quote is before text[i], acc being the
\* characters read so far
parseString(text, i, acc) ==
    bind(i - 1 + firstOf(SubSeq(text, i, Len(text)), {"\"", "\\", ReplacementChar}),
         LAMBDA j :
            IF j > Len(text) \/ text[j] = ReplacementChar THEN SyntaxError
            ELSE IF text[j] = "\""
            THEN parsed(JsString(acc \o SubSeq(text, i, j - 1)), j + 1)
            ELSE IF j < Len(text) /\ text[j + 1] \in {"\"", "\\", "/"}
            THEN parseString(text, j + 2,
                             acc \o SubSeq(text, i, j - 1) \o <<text[j + 1]>>)
            ELSE SyntaxError)

\* the number at text[i]: digits without a leading zero
parseNumber(text, i) ==
    bind(digitPrefix(SubSeq(text, i, Len(text))), LAMBDA digits :
        IF Len(digits) = 0 \/ (Len(digits) > 1 /\ digits[1] = "0") THEN SyntaxError
        ELSE parsed(JsNumber(digitsValue(digits)), i + Len(digits)))

\* text has word at position i
hasAt(text, i, word) ==
    /\ i + Len(word) - 1 <= Len(text)
    /\ \A j \in 1..Len(word) : text[i + j - 1] = word[j]

\* a value that is no object, at text[at]
parseScalar(text, at) ==
    bind(at, LAMBDA i :
        IF i > Len(text) THEN SyntaxError
        ELSE IF text[i] = "\"" THEN parseString(text, i + 1, <<>>)
        ELSE IF text[i] \in Digits THEN parseNumber(text, i)
        ELSE IF hasAt(text, i, <<"n", "u", "l", "l">>) THEN parsed(JsNull, i + 4)
        ELSE SyntaxError)

RECURSIVE parseMembers(_, _, _)
\* the members of an object, text[i] being where a member name must start
\* and acc the members read so far
parseMembers(text, i, acc) ==
    IF i > Len(text) \/ text[i] # "\"" THEN SyntaxError
    ELSE bind(parseString(text, i + 1, <<>>), LAMBDA name :
         IF ~name.ok THEN SyntaxError
         ELSE bind(skipWhitespace(text, name.next), LAMBDA colon :
         IF colon > Len(text) \/ text[colon] # ":" THEN SyntaxError
         ELSE bind(parseScalar(text, skipWhitespace(text, colon + 1)), LAMBDA value :
         IF ~value.ok THEN SyntaxError
         ELSE bind(skipWhitespace(text, value.next), LAMBDA after :
              bind(Append(acc, [name |-> name.value.str, value |-> value.value]),
                   LAMBDA all :
                IF after > Len(text) THEN SyntaxError
                ELSE IF text[after] = "}" THEN parsed(JsObject(all), after + 1)
                ELSE IF text[after] = ","
                THEN bind(skipWhitespace(text, after + 1), LAMBDA next :
                          parseMembers(text, next, all))
                ELSE SyntaxError)))))

\* JSON.parse of a text whose values are strings, whole numbers, null or
\* objects of these: ok is FALSE where it throws
JSONparse(json) ==
    bind(json, LAMBDA text :
    bind(skipWhitespace(text, 1), LAMBDA i :
    bind(IF i <= Len(text) /\ text[i] = "{"
         THEN bind(skipWhitespace(text, i + 1), LAMBDA j :
                   IF j <= Len(text) /\ text[j] = "}"
                   THEN parsed(JsObject(<<>>), j + 1)
                   ELSE parseMembers(text, j, <<>>))
         ELSE parseScalar(text, i),
         LAMBDA r :
            IF r.ok /\ skipWhitespace(text, r.next) = Len(text) + 1 THEN r
            ELSE SyntaxError)))

\* isShareTokenV1 asking for a t in every token
isShareTokenV1_requiresT(value) ==
    /\ value.type = "object"
    /\ member(value, "v") = JsNumber(1)
    /\ member(value, "sid").type = "string"
    /\ Len(member(value, "sid").str) > 0
    /\ member(value, "k").type = "string"
    /\ Len(member(value, "k").str) > 0
    /\ member(value, "t").type = "string"

\* isShareTokenV1(value)
isShareTokenV1(value) ==
    /\ value.type = "object"
    /\ member(value, "v") = JsNumber(1)
    /\ member(value, "sid").type = "string"
    /\ Len(member(value, "sid").str) > 0
    /\ member(value, "k").type = "string"
    /\ Len(member(value, "k").str) > 0
    /\ member(value, "t").type \in {"undefined", "string"}

\* encodeShareToken(token)
encodeShareToken(shareToken) == toBase64Url(utf8Bytes(JSONstringify(shareToken)))

\* the key length decodeShareToken asks for
KeyLength == 32

\* what decodeShareToken throws, or the DecodedShareToken it returns
failed(message) == [error |-> <<message>>, shareId |-> <<>>, key |-> <<>>, txId |-> Undefined]
DecodedShareToken(shareId, key, txId) ==
    [error |-> Undefined, shareId |-> shareId, key |-> key, txId |-> txId]

\* decodeShareToken(token)
decodeShareToken(text) ==
    bind(JSONparse(utf8Text(fromBase64Url(text))), LAMBDA json :
        IF ~json.ok THEN failed("Invalid share token format.")
        ELSE IF ~isShareTokenV1(json.value) THEN failed("Invalid share token payload.")
        ELSE bind(fromBase64Url(member(json.value, "k").str), LAMBDA keyBytes :
                IF Len(keyBytes) # KeyLength
                THEN failed("Invalid share token key length.")
                ELSE DecodedShareToken(
                        member(json.value, "sid").str, keyBytes,
                        IF member(json.value, "t").type = "undefined" THEN Undefined
                        ELSE <<member(json.value, "t").str>>)))

\* const SHARE_URL_PREFIX = "sharme://share/"
SHARE_URL_PREFIX ==
    <<"s", "h", "a", "r", "m", "e", ":", "/", "/", "s", "h", "a", "r", "e", "/">>

\* text.indexOf(word) + 1: 0 when word is not in text
indexOf(text, word) ==
    bind({i \in 1..Len(text) : hasAt(text, i, word)}, LAMBDA at :
        IF at = {} THEN 0 ELSE CHOOSE i \in at : \A j \in at : i <= j)

\* text.includes(word)
includes(text, word) == indexOf(text, word) # 0

\* the part of text before the first of the characters in stops
upTo(text, stops) == SubSeq(text, 1, firstOf(text, stops) - 1)

\* text without its first n characters
drop(text, n) == SubSeq(text, n + 1, Len(text))

RECURSIVE dropSlashes(_)
dropSlashes(text) ==
    IF Len(text) > 0 /\ Head(text) = "/" THEN dropSlashes(Tail(text)) ELSE text

isLetter(c) ==
    \/ charCode[c] >= 65 /\ charCode[c] <= 90
    \/ charCode[c] >= 97 /\ charCode[c] <= 122
isSchemeChar(c) == isLetter(c) \/ c \in Digits \/ c \in {"+", "-", "."}

\* the schemes whose URLs must name a host
SpecialSchemes == {<<"h", "t", "t", "p">>, <<"h", "t", "t", "p", "s">>}
\* characters no host may hold
ForbiddenHostChars == {" ", "<", ">", "^", "|"}

\* a URL that does not parse: new URL(text) throws a TypeError
InvalidUrl == [ok |-> FALSE, pathname |-> <<>>, search |-> <<>>]

\* the pathname and the search (without its "?") of what follows the host
afterHost(special, rest) ==
    bind(upTo(rest, {"?", "#"}), LAMBDA path :
    bind(drop(rest, Len(path)), LAMBDA afterPath :
        [ok |-> TRUE,
         pathname |-> IF special /\ Len(path) = 0 THEN <<"/">> ELSE path,
         search |-> IF Len(afterPath) > 0 /\ Head(afterPath) = "?"
                    THEN upTo(Tail(afterPath), {"#"}) ELSE <<>>]))

\* new URL(text), for a text without userinfo, port, percent escapes, dot
\* segments and backslashes: its pathname and its search
newURL(text) ==
    bind(indexOf(text, <<":">>), LAMBDA colon :
    bind(SubSeq(text, 1, colon - 1), LAMBDA scheme :
    bind(drop(text, colon), LAMBDA rest :
        IF colon < 2 \/ ~isLetter(text[1]) THEN InvalidUrl
        ELSE IF \E i \in 1..Len(scheme) : ~isSchemeChar(scheme[i]) THEN InvalidUrl
        ELSE IF scheme \notin SpecialSchemes /\ ~hasAt(rest, 1, <<"/", "/">>)
        THEN afterHost(FALSE, rest)
        ELSE bind(IF scheme \in SpecialSchemes THEN dropSlashes(rest)
                  ELSE drop(rest, 2), LAMBDA authority :
             bind(upTo(authority, {"/", "?", "#"}), LAMBDA host :
                IF scheme \in SpecialSchemes /\ Len(host) = 0 THEN InvalidUrl
                ELSE IF \E i \in 1..Len(host) : host[i] \in ForbiddenHostChars
                THEN InvalidUrl
                ELSE afterHost(scheme \in SpecialSchemes,
                               drop(authority, Len(host))))))))

RECURSIVE splitOn(_, _)
\* text.split(separator), separator one character
splitOn(text, separator) ==
    bind(text, LAMBDA t :
    bind(upTo(t, {separator}), LAMBDA first :
        IF Len(first) = Len(t) THEN <<t>>
        ELSE <<first>> \o splitOn(drop(t, Len(first) + 1), separator)))

\* url.searchParams.get(name): null (<<>>) without such a parameter, else
\* the value of the first one
searchParamsGet(search, name) ==
    bind(SelectSeq(splitOn(search, "&"),
                   LAMBDA p : Len(p) > 0 /\ upTo(p, {"="}) = name), LAMBDA named :
        IF Len(named) = 0 THEN Undefined
        ELSE <<drop(named[1], Len(name) + 1)>>)

\* what extractToken throws, or the token it returns
extracted(text) == [error |-> Undefined, token |-> text]
extractFailed(message) == [error |-> <<message>>, token |-> <<>>]

\* extractToken looking at the path before the query
extractToken_pathFirst(input) ==
    bind(trim(input), LAMBDA trimmed :
        IF trimmed = <<>> THEN extractFailed("Missing share token.")
        ELSE IF ~includes(trimmed, <<":", "/", "/">>) THEN extracted(trimmed)
        ELSE bind(newURL(trimmed), LAMBDA url :
             bind(searchParamsGet(url.search, <<"t", "o", "k", "e", "n">>),
                  LAMBDA fromQuery :
             bind(SelectSeq(splitOn(url.pathname, "/"), LAMBDA p : Len(p) > 0),
                  LAMBDA parts :
                IF ~url.ok THEN extractFailed("Invalid share URL.")
                ELSE IF Len(parts) > 0 THEN extracted(parts[Len(parts)])
                ELSE IF Defined(fromQuery) /\ Len(fromQuery[1]) > 0
                THEN extracted(fromQuery[1])
                ELSE extractFailed("Could not extract token from URL.")))))

\* extractToken(input)
extractToken(input) ==
    bind(trim(input), LAMBDA trimmed :
        IF trimmed = <<>> THEN extractFailed("Missing share token.")
        ELSE IF ~includes(trimmed, <<":", "/", "/">>) THEN extracted(trimmed)
        ELSE bind(newURL(trimmed), LAMBDA url :
             bind(searchParamsGet(url.search, <<"t", "o", "k", "e", "n">>),
                  LAMBDA fromQuery :
             bind(SelectSeq(splitOn(url.pathname, "/"), LAMBDA p : Len(p) > 0),
                  LAMBDA parts :
                IF ~url.ok THEN extractFailed("Invalid share URL.")
                ELSE IF Defined(fromQuery) /\ Len(fromQuery[1]) > 0
                THEN extracted(fromQuery[1])
                ELSE IF Len(parts) > 0 THEN extracted(parts[Len(parts)])
                ELSE extractFailed("Could not extract token from URL.")))))

\* ---- the tokens and inputs `sharme sync` is given
\* 32-byte keys as randomBytes(32) may return them, and keys of the lengths
\* next to 32
sampleKey(length, s) == [i \in 1..length |-> (s * (37 * i + 218)) % 256]
ShareKeys == {sampleKey(KeyLength, s) : s \in 0..NumSampleKeys}
KeysOfAnyLength ==
    {sampleKey(length, 1) : length \in {KeyLength - 1, KeyLength, KeyLength + 1}}

\* share ids and tx ids as texts
ShareIdTexts == {<<"s">>, <<"a", "\"", "\\">>}
TxIdTexts == {<<"t", "-", "1">>}

\* the object literal {v, sid, k, t}
ShareTokenV1(v, sid, k, t) ==
    JsObject(<<[name |-> <<"v">>, value |-> v],
               [name |-> <<"s", "i", "d">>, value |-> sid],
               [name |-> <<"k">>, value |-> k],
               [name |-> <<"t">>, value |-> t]>>)

\* objects of every shape a token may wrap
ForgedVersions == {JsUndefined, JsNumber(1), JsNumber(2), JsString(<<"1">>)}
ForgedShareIds == {JsUndefined, JsNull, JsNumber(7), JsString(<<>>), JsString(<<"s">>)}
\* k with the key it encodes
ForgedKeys ==
    {[value |-> k, key |-> <<>>] : k \in {JsUndefined, JsNumber(7), JsString(<<>>)}}
    \cup {[value |-> JsString(toBase64Url(key)), key |-> key] :
             key \in KeysOfAnyLength}
ForgedTxIds == {JsUndefined, JsNull, JsNumber(7), JsString(<<"t", "-", "1">>)}
\* a character outside the base64url alphabet
StrayChars == {"!"}

\* the parts a URL is written from, each with what it means
UrlSchemes ==
    {[text |-> <<"s", "h", "a", "r", "m", "e">>, valid |-> TRUE, special |-> FALSE],
     [text |-> <<"h", "t", "t", "p", "s">>, valid |-> TRUE, special |-> TRUE],
     [text |-> <<>>, valid |-> FALSE, special |-> FALSE],
     [text |-> <<"1", "a">>, valid |-> FALSE, special |-> FALSE]}
UrlHosts ==
    {[text |-> <<"s", "h", "a", "r", "e">>, valid |-> TRUE],
     [text |-> <<>>, valid |-> TRUE],
     [text |-> <<"h", "^">>, valid |-> FALSE]}
UrlPaths ==
    {[text |-> <<>>, last |-> Undefined],
     [text |-> <<"/">>, last |-> Undefined],
     [text |-> <<"/", "/">>, last |-> Undefined],
     [text |-> <<"/", "a", "b", "c">>, last |-> << <<"a", "b", "c">> >>],
     [text |-> <<"/", "a", "b", "c", "/">>, last |-> << <<"a", "b", "c">> >>],
     [text |-> <<"/", "x", "/", "/", "a", "b">>, last |-> << <<"a", "b">> >>]}
UrlQueries ==
    {[text |-> <<>>, token |-> Undefined],
     [text |-> <<"?", "a", "=", "b">>, token |-> Undefined],
     [text |-> <<"?", "t", "o", "k", "e", "n", "=">>, token |-> Undefined],
     [text |-> <<"?", "t", "o", "k", "e", "n", "=", "x", "y">>,
      token |-> << <<"x", "y">> >>],
     [text |-> <<"?", "a", "=", "b", "&", "t", "o", "k", "e", "n", "=", "x", "y">>,
      token |-> << <<"x", "y">> >>]}
UrlFragments == {<<>>, <<"#", "f">>}
Paddings == {<<>>, <<" ">>}
\* the URLs: an https URL without a host is left to its slash-only paths,
\* where it does not parse (with a longer path the path's head is the host)
Urls ==
    {u \in [scheme : UrlSchemes, host : UrlHosts, path : UrlPaths,
            query : UrlQueries, fragment : UrlFragments] :
        ~(u.scheme.special /\ u.host.text = <<>> /\ Defined(u.path.last))}
urlText(u) ==
    u.scheme.text \o <<":", "/", "/">> \o u.host.text \o u.path.text
    \o u.query.text \o u.fragment
\* token texts that are no URL
BareTexts == {<<>>, <<"a", "b", "c">>, <<"a", " ", "b">>, <<"a", ":", "/", "b">>}

\* `sharme share` encodes {v: 1, sid, k: base64url(shareKey), t} and prints
\* the token behind SHARE_URL_PREFIX (and the token itself when verbose);
\* a legacy token has no t
EncodeShareToken(sid, key, t, asUrl) ==
    /\ token.pc = "idle"
    /\ \E object \in {ShareTokenV1(JsNumber(1), JsString(sid),
                                    JsString(toBase64Url(key)), t)} :
       \E text \in {encodeShareToken(object)} :
          token' = [token EXCEPT
                        !.pc = "input",
                        !.made = [NotMade EXCEPT !.kind = "share", !.object = object,
                                                 !.key = key, !.text = text,
                                                 !.asUrl = asUrl],
                        !.input = IF asUrl THEN SHARE_URL_PREFIX \o text ELSE text]
    /\ UNCHANGED <<db, archive, run, restore, snap, confirmed, lastEvent, calls,
                   tool, conv, query, ingest, download, redeem,
                   server, watch, discover>>

\* somebody else writes a token around an object of any shape, with or
\* without a character from outside the alphabet behind it
TokenForged(object, key, stray) ==
    /\ token.pc = "idle"
    /\ \E text \in {encodeShareToken(object) \o stray} :
          token' = [token EXCEPT
                        !.pc = "input",
                        !.made = [NotMade EXCEPT !.kind = "forged", !.object = object,
                                                 !.key = key, !.stray = stray,
                                                 !.text = text],
                        !.input = text]
    /\ UNCHANGED <<db, archive, run, restore, snap, confirmed, lastEvent, calls,
                   tool, conv, query, ingest, download, redeem,
                   server, watch, discover>>

\* a token that was cut short: the base64url of the first cut characters of
\* a share token's JSON
TokenCut(sid, key, cut) ==
    /\ token.pc = "idle"
    /\ \E object \in {ShareTokenV1(JsNumber(1), JsString(sid),
                                    JsString(toBase64Url(key)), JsUndefined)} :
       \E json \in {JSONstringify(object)} :
       \E text \in {toBase64Url(utf8Bytes(SubSeq(json, 1, cut)))} :
          /\ cut < Len(json)
          /\ token' = [token EXCEPT
                          !.pc = "input",
                          !.made = [NotMade EXCEPT !.kind = "cut", !.object = object,
                                                   !.key = key, !.cut = cut,
                                                   !.text = text],
                          !.input = text]
    /\ UNCHANGED <<db, archive, run, restore, snap, confirmed, lastEvent, calls,
                   tool, conv, query, ingest, download, redeem,
                   server, watch, discover>>

\* `sharme sync <url>`, blanks around the URL or not
UrlGiven(u, before, after) ==
    /\ token.pc = "idle"
    /\ token' = [token EXCEPT
                    !.pc = "input",
                    !.made = [NotMade EXCEPT !.kind = "url", !.url = u,
                                             !.text = urlText(u), !.asUrl = TRUE,
                                             !.before = before, !.after = after],
                    !.input = before \o urlText(u) \o after]
    /\ UNCHANGED <<db, archive, run, restore, snap, confirmed, lastEvent, calls,
                   tool, conv, query, ingest, download, redeem,
                   server, watch, discover>>

\* `sharme sync <text>`, blanks around the text or not
TextGiven(text, before, after) ==
    /\ token.pc = "idle"
    /\ token' = [token EXCEPT
                    !.pc = "input",
                    !.made = [NotMade EXCEPT !.kind = "bare", !.text = text,
                                             !.before = before, !.after = after],
                    !.input = before \o text \o after]
    /\ UNCHANGED <<db, archive, run, restore, snap, confirmed, lastEvent, calls,
                   tool, conv, query, ingest, download, redeem,
                   server, watch, discover>>

\* syncCommand: const token = extractToken(urlOrToken)
ExtractToken ==
    /\ token.pc = "input"
    /\ \E r \in {extractToken(token.input)} :
          token' = [token EXCEPT !.extracted = <<r>>,
                        !.pc = IF Defined(r.error) THEN "failed" ELSE "token"]
    /\ UNCHANGED <<db, archive, run, restore, snap, confirmed, lastEvent, calls,
                   tool, conv, query, ingest, download, redeem,
                   server, watch, discover>>

\* syncCommand: const decoded = decodeShareToken(token)
DecodeShareToken ==
    /\ token.pc = "token"
    /\ \E r \in {decodeShareToken(token.extracted[1].token)} :
          token' = [token EXCEPT !.decoded = <<r>>,
                        !.pc = IF Defined(r.error) THEN "failed" ELSE "decoded"]
    /\ UNCHANGED <<db, archive, run, restore, snap, confirmed, lastEvent, calls,
                   tool, conv, query, ingest, download, redeem,
                   server, watch, discover>>

\* the inputs are drawn where a run starts
NextToken ==
    \/ /\ token.pc = "idle"
       /\ \E sid \in ShareIdTexts, key \in ShareKeys,
             t \in {JsUndefined} \cup {JsString(tx) : tx \in TxIdTexts},
             asUrl \in BOOLEAN :
             EncodeShareToken(sid, key, t, asUrl)
    \/ /\ token.pc = "idle"
       /\ \E v \in ForgedVersions, sid \in ForgedShareIds, k \in ForgedKeys,
             t \in ForgedTxIds, stray \in {<<>>} \cup {<<c>> : c \in StrayChars} :
             \E object \in {ShareTokenV1(v, sid, k.value, t)} :
                TokenForged(object, k.key, stray)
    \/ /\ token.pc = "idle"
       /\ \E sid \in ShareIdTexts, key \in ShareKeys, cut \in 1..MaxCut :
             TokenCut(sid, key, cut)
    \/ /\ token.pc = "idle"
       /\ \E u \in Urls, before \in Paddings, after \in Paddings :
             UrlGiven(u, before, after)
    \/ /\ token.pc = "idle"
       /\ \E text \in BareTexts, before \in Paddings, after \in Paddings :
             TextGiven(text, before, after)
    \/ ExtractToken
    \/ DecodeShareToken

SpecToken == Init /\ [][NextToken]_vars

\* ================================================================ claims

\* C1: when an upload fails, syncDirtyFacts ends having written nothing: the
\* abort leaves the store (dirty flags, pending_deletes, current_version,
\* last_pushed_version) as it finds it and, if no tool handler and no other
\* invocation wrote the store meanwhile, as it was when the invocation
\* started; what the next tick builds from it is the same op set.
AbortLeavesStore ==
    [][\A r \in Runs :
          (Active(r) /\ ~Active(r)' /\ lastEvent' = "pushFail")
              => /\ db' = db
                 /\ snap[r].clean =>
                        /\ db' = snap[r].db
                        /\ buildOperations(db') = buildOperations(snap[r].db)]_vars

\* C1 witness: a push failed after one of its shards had reached the
\* archive, and the facts it was pushing are still dirty.
AbortAfterPartialUpload ==
    /\ lastEvent = "pushFail"
    /\ Len(archive) >= 1
    /\ Len(getDirtyFacts(db)) = 2
    /\ currentVersion(db) = 0

\* C2 (as claimed): once a push has completed, every fact with dirty = 0
\* has its current value in an uploaded shard: a fact upserted while the
\* push awaited an upload is still dirty.
CleanMeansUploaded ==
    lastEvent \in {"pushOk", "pushOkRaced"} =>
        \A i \in 1..Len(db.facts) :
            ~db.facts[i].dirty =>
                \E j \in 1..Len(archive) :
                    \E n \in 1..Len(archive[j].operations) :
                        archive[j].operations[n]
                            = factToUpsertOp(rowToFact(db.facts[i]))

\* C3 (as claimed): once a push that nothing interleaved with has
\* committed, and nothing has happened since, replaying the wallet's delta
\* shards in canonical order yields exactly the local fact set.
ReplayMatchesLocal ==
    lastEvent = "pushOk" => pullAndReconstruct(archive).facts = localFacts(db)

\* C4 (as claimed): at most one syncDirtyFacts invocation is in flight.
NoOverlappingPush == Cardinality({r \in Runs : Active(r)}) <= 1

\* C5 (as claimed): last_pushed_version never decreases.
LastPushedMonotonic ==
    [][lastPushedVersion(db)' >= lastPushedVersion(db)]_vars

\* C6 (as claimed): no two delta shards of the wallet carry one Version.
VersionsUnique ==
    \A i, j \in 1..Len(archive) :
        (i # j /\ archive[i].type = "delta" /\ archive[j].type = "delta")
            => archive[i].version # archive[j].version

\* C7: current_version is never above the highest shard version pushShard
\* has resolved for, and the commit runs only after every shard of the
\* invocation has been resolved, with lastVersion the last of them.
CurrentVersionConfirmed ==
    /\ currentVersion(db) <= confirmed
    /\ \A r \in Runs :
          run[r].pc \in CommitPcs =>
              /\ run[r].i = Len(run[r].shards) + 1
              /\ run[r].lastVersion
                     = run[r].shards[Len(run[r].shards)].shard_version
              /\ run[r].lastVersion <= confirmed

\* C7 witness: a push of two shards has committed current_version = 2.
TwoShardPushCommitted ==
    /\ currentVersion(db) = 2
    /\ lastEvent = "pushOk"
    /\ confirmed = 2

\* C8 (as claimed): between handlers, and after a kill, the store never
\* shows a commit in part: either no push has committed (all facts dirty,
\* current_version 0, no last_pushed_version) or last_pushed_version
\* equals current_version.
CommitAtomic ==
    ~Busy =>
        IF hasMeta(db, "last_pushed_version")
        THEN getMeta(db, "last_pushed_version") = getMeta(db, "current_version")
        ELSE /\ currentVersion(db) = 0
             /\ \A i \in 1..Len(db.facts) : db.facts[i].dirty

signedIdentities ==
    {i \in 1..Len(archive) :
        archive[i].type = "identity" /\ signed(archive[i])}

\* C35 (as claimed): once fetchIdentity has returned, it returned null
\* without asking for any tags when the wallet has no signed identity
\* record, and otherwise the record it selected is the newest one, and
\* among the newest the one whose transaction id is lexicographically the
\* greatest.
NewestIdentitySelected ==
    restore.identity # <<>> =>
        LET result == restore.identity[1]
        IN IF signedIdentities = {}
           THEN ~result.found /\ result.queried = <<>>
           ELSE \E i \in signedIdentities :
                   /\ result.queried = <<archive[i].txId>>
                   /\ \A j \in signedIdentities :
                         \/ timestampOf(archive[j]) < timestampOf(archive[i])
                         \/ /\ timestampOf(archive[j]) = timestampOf(archive[i])
                            /\ lexicographic(archive[j].txId,
                                             archive[i].txId) <= 0

\* the signed identity record that the comparator puts before every other
newestIdentity ==
    CHOOSE i \in signedIdentities :
        \A j \in signedIdentities : newestFirst(archive[i], archive[j]) <= 0

\* C36: when the newest signed identity record has no Salt tag,
\* fetchIdentity has returned null, with no salt, and has downloaded
\* nothing, whatever older records with a Salt the wallet has.
NoSaltNoIdentity ==
    (/\ restore.identity # <<>>
     /\ signedIdentities # {}
     /\ archive[newestIdentity].salt = Undefined)
        => LET result == restore.identity[1]
           IN /\ ~result.found
              /\ result.salt = <<>>
              /\ result.downloaded = {}

\* fetchIdentity returned null although an older signed record of the
\* wallet carries a Salt
OlderSaltIgnored ==
    /\ restore.identity # <<>>
    /\ signedIdentities # {}
    /\ archive[newestIdentity].salt = Undefined
    /\ restore.identity[1].queried = <<archive[newestIdentity].txId>>
    /\ \E j \in signedIdentities :
          /\ timestampOf(archive[j]) < timestampOf(archive[newestIdentity])
          /\ Defined(archive[j].salt) /\ archive[j].salt[1] # <<>>
    /\ restore.error = "identity not found"

\* C32 (as claimed): when the store is closed, no syncDirtyFacts invocation
\* was still awaiting an upload with its commit writes ahead of it.
GracefulShutdown ==
    server.closed => server.inFlight = {}

\* the version of the shard whose upload invocation r is at
versionAt(r) == run[r].shards[run[r].i].shard_version

\* C33: within one invocation of syncDirtyFacts, the first upload begins
\* with the version after current_version as the invocation read it; the
\* upload of a later shard begins only when pushShard has resolved for the
\* shard before it, which is on the archive and has the version just
\* below; and the first upload the archive ever accepts is Version 1.
UploadsInVersionOrder ==
    [][/\ \A r \in Runs :
            (run'[r].pc = "await"
                /\ (run[r].pc # "await" \/ run'[r].i # run[r].i))
              => IF run[r].pc = "idle"
                 THEN /\ run'[r].i = 1
                      /\ run'[r].shards[1].shard_version
                            = currentVersion(db) + 1
                 ELSE /\ run[r].pc = "landed"
                      /\ run'[r].i = run[r].i + 1
                      /\ run'[r].shards = run[r].shards
                      /\ run'[r].shards[run'[r].i].shard_version
                            = versionAt(r) + 1
                      /\ confirmed' >= versionAt(r)
                      /\ \E k \in 1..Len(archive) :
                            archive[k].version = versionAt(r)
       /\ (archive = <<>> /\ archive' # <<>>) => archive'[1].version = 1
      ]_vars

\* the second shard of an invocation is being uploaded
SecondUploadBegun ==
    \E r \in Runs : run[r].pc = "await" /\ run[r].i = 2

\* where the shard with transaction id t stands in the list
placeOf(shards, t) == CHOOSE i \in 1..Len(shards) : shards[i].txId = t

\* C34: what queryShards returns is the list its loop collected, in
\* ascending order of version, and two shards of the same version stand in
\* the order in which the gateway's pages gave them.
StableVersionSort ==
    [][(ingest.fn = "queryShards" /\ ~ingest.returned /\ ingest'.returned)
         => LET collected == ingest.shards
                result == ingest'.shards
            IN /\ Len(result) = Len(collected)
               /\ {result[i] : i \in 1..Len(result)}
                     = {collected[i] : i \in 1..Len(collected)}
               /\ \A i, j \in 1..Len(result) :
                     i < j =>
                        /\ result[i].version <= result[j].version
                        /\ result[i].version = result[j].version
                              => placeOf(collected, result[i].txId)
                                   < placeOf(collected, result[j].txId)
      ]_vars

\* two identity shards, both of version 0, were returned in the order the
\* gateway gave them, which is not the order of their transaction ids
IdentityTieReturned ==
    /\ ingest.fn = "queryShards"
    /\ ingest.returned
    /\ Len(ingest.shards) = 2
    /\ ingest.shards[1].type = "identity"
    /\ ingest.shards[2].type = "identity"
    /\ ingest.shards[1].txId = 2
    /\ ingest.shards[2].txId = 1

\* the key an operation of a shard is about
keyOf(operation) ==
    IF operation.op = "upsert" THEN operation.fact.key ELSE operation.key

\* C37 (as claimed): whenever no handler is between two statements, no key
\* has both a row of facts and a row of pending_deletes, and the op list a
\* push would build from the store has no two ops for the same key.
OneOpPerKey ==
    tool.pc = "idle" =>
        LET operations == buildOperations(db)
        IN /\ \A key \in Keys :
                 ~(hasFact(db, key) /\ key \in db.pending_deletes)
           /\ \A i, j \in 1..Len(operations) :
                 i # j => keyOf(operations[i]) # keyOf(operations[j])

\* two uploaded segments of the session share a message
segmentsOverlap(w) ==
    \E i, j \in 1..Len(w.segments) :
        /\ i < j
        /\ w.segments[i].offset < w.segments[j].offset + w.segments[j].count
        /\ w.segments[j].offset < w.segments[i].offset + w.segments[i].count

\* C38 (as claimed): no step takes the cursor of the session to a lower
\* value, and no step leaves two uploaded segments of the session that
\* share a message, also when two invocations of the callback are
\* suspended together.
CursorMonotoneNoOverlap ==
    [][/\ lastSynced(db') >= lastSynced(db)
       /\ ~segmentsOverlap(watch')]_vars

\* the conversation of a loaded list with the given key
listed(list, key) ==
    list[CHOOSE i \in 1..Len(list) : combinedKey(list[i]) = key]

\* the remote conversations discoverConversations looked at
remoteSeen == IF discover.localOnly THEN <<>> ELSE discover.remote

\* C39: what discoverConversations returned has one entry for each
\* (client, id) of the local, remote and shared lists and no other; an
\* entry found locally and remotely has source both and is the remote
\* conversation when both dates parse and the remote one is later, the
\* local one when the dates are equal or the remote one does not parse; an
\* entry found locally or remotely is never the shared import; and every
\* entry's updatedAt is at or after that of the entries behind it.
DiscoverMergesSources ==
    discover.pc = "returned" =>
        LET result == discover.result
            entry(key) == listed(result, key)
        IN /\ keysOf(result) = keysOf(discover.local) \cup keysOf(remoteSeen)
                                   \cup keysOf(discover.shared)
           /\ \A i, j \in 1..Len(result) :
                 i # j => combinedKey(result[i]) # combinedKey(result[j])
           /\ \A key \in keysOf(discover.local) \cap keysOf(remoteSeen) :
                 LET local == listed(discover.local, key)
                     remote == listed(remoteSeen, key)
                     localTime == DateParse(local.updatedAt)
                     remoteTime == DateParse(remote.updatedAt)
                 IN /\ entry(key).source = "both"
                    /\ (isFinite(localTime) /\ isFinite(remoteTime)
                          /\ remoteTime.value > localTime.value)
                         => /\ entry(key).content = "remote"
                            /\ entry(key).updatedAt = remote.updatedAt
                    /\ (~isFinite(remoteTime)
                          \/ (isFinite(localTime)
                                /\ remoteTime.value <= localTime.value))
                         => /\ entry(key).content = "local"
                            /\ entry(key).updatedAt = local.updatedAt
           /\ \A key \in keysOf(discover.local) \cup keysOf(remoteSeen) :
                 /\ entry(key).content # "shared"
                 /\ entry(key).source # "shared"
           /\ \A i, j \in 1..Len(result) :
                 i < j => localeCompare(result[i].updatedAt,
                                        result[j].updatedAt) >= 0

\* a conversation found by all three loaders was returned once, as the
\* later remote one, behind a shared import of a later date
RemoteVersionKept ==
    /\ discover.pc = "returned"
    /\ \E key \in keysOf(discover.local) \cap keysOf(remoteSeen)
                     \cap keysOf(discover.shared) :
          /\ listed(discover.result, key).content = "remote"
          /\ listed(discover.result, key).source = "both"
          /\ listed(discover.local, key).updatedAt = <<"2", "0", "2", "4">>
    /\ Len(discover.result) = 2
    /\ discover.result[1].source = "shared"

\* C9 (as claimed): a restore that started right after a committed push,
\* and met no gateway failure, ends restored, SHARME_HOME in place, with
\* exactly the facts of the first device.
RecoveryFromPhraseAlone ==
    (restore.pc \in {"restored", "failed"} /\ restore.afterPush
        /\ restore.error # "gateway")
      => /\ restore.pc = "restored"
         /\ restore.home
         /\ restore.facts = localFacts(db)

\* C10 (as claimed): a tick that follows a tick, failed ones included, with
\* no mutation in between uploads nothing and leaves the store alone.
PushIdempotentAfterAnyTick ==
    [][(lastEvent \in {"pushOk", "pushOkRaced", "pushNoop", "pushFail"}
           /\ calls'.timer # calls.timer)
          => (db' = db /\ archive' = archive /\ run' = run)]_vars

\* C10 (amended): a tick that follows a tick that committed, or that found
\* nothing to push, with no mutation in between starts no upload and
\* leaves current_version, last_pushed_version, the dirty flags and
\* pending_deletes as they are.
PushIdempotent ==
    [][(lastEvent \in {"pushOk", "pushOkRaced", "pushNoop"}
           /\ calls'.timer # calls.timer)
          => (db' = db /\ archive' = archive /\ run' = run)]_vars

\* C10 witness: after a committed push, a second tick has found nothing
\* to do.
SecondTickNoop ==
    /\ lastEvent = "pushNoop"
    /\ hasMeta(db, "last_pushed_version")
    /\ Len(db.facts) >= 1
    /\ calls.timer = 2

UpsertAtomic ==
    tool.pc = "idle" =>
        \A key \in Keys : ~(hasFact(db, key) /\ key \in db.pending_deletes)

\* C13 (as claimed): a step that inserts a fact row or changes a column of
\* one leaves the row dirty, and the handler that made the change returns
\* with no pending delete for the key.
MutationSetsDirty ==
    [][\A key \in Keys :
          LET written ==
                 /\ hasFact(db', key)
                 /\ hasFact(db, key) =>
                        rowToFact(rowOf(db', key)) # rowToFact(rowOf(db, key))
              finished ==
                 /\ tool.pc = "upsert_written"
                 /\ tool.key = key
                 /\ lastEvent' # "crash"
          IN /\ written => rowOf(db', key).dirty
             /\ (tool'.pc = "idle" /\ (written \/ finished))
                    => key \notin db'.pending_deletes]_vars

\* C14 (as claimed): the access_count of a key that stays present never
\* decreases.
AccessCountMonotonic ==
    [][\A key \in Keys :
          (hasFact(db, key) /\ hasFact(db', key))
              => rowOf(db', key).access_count >= rowOf(db, key).access_count]_vars

\* C15: the created of a key that stays present never changes, whatever
\* created the upsert carries.
CreatedImmutable ==
    [][\A key \in Keys :
          (hasFact(db, key) /\ hasFact(db', key))
              => rowOf(db', key).created = rowOf(db, key).created]_vars

\* C15 witness: a fact has been upserted again at a later time: its
\* last_confirmed has moved on, its created has not.
ReupsertedLater ==
    \E key \in Keys :
        /\ hasFact(db, key)
        /\ tool.pc = "idle"
        /\ rowOf(db, key).created = 0
        /\ rowOf(db, key).last_confirmed = 2

\* C16: in every state of the store, deleteFact of an absent key changes
\* nothing; deleteFact of a present key removes its row, records its
\* pending delete and touches no other row, pending delete or meta row; and
\* a second deleteFact of the key changes nothing more.
DeleteIdempotent ==
    \A key \in Keys :
        LET once == deleteFact(db, key)
        IN /\ ~hasFact(db, key) => once = db
           /\ hasFact(db, key) =>
                 /\ once.facts = SelectSeq(db.facts, LAMBDA row : row.key # key)
                 /\ once.pending_deletes = db.pending_deletes \cup {key}
                 /\ once.meta = db.meta
           /\ ~hasFact(once, key)
           /\ deleteFact(once, key) = once

\* C16 witness: a key has been deleted while another fact stays: its row is
\* gone and its pending delete is recorded.
DeletedOneOfTwo ==
    \E key \in Keys :
        /\ ~hasFact(db, key)
        /\ key \in db.pending_deletes
        /\ Len(db.facts) = 1
        /\ lastEvent = "mutation"
        /\ tool.pc = "idle"

\* C17: the cursor of the session changes only in the step that follows the
\* upload of every chunk of the segment, when the archive holds chunks
\* 1..total of that segment, and it becomes the message count of the
\* conversation; a step in which a chunk upload fails leaves it as it was.
CursorAfterAllChunks ==
    [][/\ db'.meta # db.meta =>
            /\ conv.pc = "uploading"
            /\ conv.chunk = conv.total
            /\ \A i \in 1..conv.total :
                  \E j \in 1..Len(conv.chunks) :
                     conv.chunks[j] = conversationTx(conv.lastSynced,
                                          conv.n - conv.lastSynced, i, conv.total)
            /\ db' = setMeta(db, stateKey, String(conv.n))
       /\ lastEvent' = "chunkFail" => db' = db]_vars

\* C17 witness: the second chunk of a two-chunk segment failed after the
\* first had uploaded, and no cursor has been written.
SecondChunkFailed ==
    /\ lastEvent = "chunkFail"
    /\ Len(conv.chunks) = 1
    /\ conv.chunks[1].total = 2
    /\ ~hasMeta(db, stateKey)

\* C18: with c the stored cursor (0 if none) and n the length of the
\* emitted conversation, a callback with n <= c ends at once with the
\* archive and the store untouched; one with n > c starts a segment, every
\* chunk it uploads carries Offset = c and Count = n - c, and the cursor it
\* writes is n.
ConversationIncremental ==
    [][LET c == IF stateKey \in DOMAIN db.meta
                THEN parseInt(db.meta[stateKey]) ELSE 0
           n == conv.messages
       IN /\ conv'.emits # conv.emits =>
               /\ n <= c => (conv'.pc = "idle" /\ conv'.chunks = conv.chunks
                                /\ db' = db)
               /\ n > c => (conv'.pc = "uploading" /\ conv'.n = n
                               /\ conv'.chunks = conv.chunks /\ db' = db)
          /\ conv'.chunks # conv.chunks =>
               /\ Len(conv'.chunks) = Len(conv.chunks) + 1
               /\ SubSeq(conv'.chunks, 1, Len(conv.chunks)) = conv.chunks
               /\ conv'.chunks[Len(conv'.chunks)].offset = c
               /\ conv'.chunks[Len(conv'.chunks)].count = conv.n - c
               /\ conv.n > c
          /\ db'.meta # db.meta =>
               /\ stateKey \in DOMAIN db'.meta
               /\ parseInt(db'.meta[stateKey]) = conv.n
               /\ conv.n > c]_vars

\* C18 witness: the session was pushed at 10 messages and again at 13: the
\* archive holds the segment (Offset 0, Count 10) in two chunks and the
\* segment (Offset 10, Count 3) in one, and the cursor is 13.
PushedAtTenThenThirteen ==
    /\ conv.chunks = <<conversationTx(0, 10, 1, 2), conversationTx(0, 10, 2, 2),
                       conversationTx(10, 3, 1, 1)>>
    /\ hasMeta(db, stateKey)
    /\ getMeta(db, stateKey) = <<1, 3>>
    /\ conv.pc = "idle"

\* C19 (as claimed): a request fails to its caller only when every
\* configured endpoint has answered it with a failure.
FailoverOnEveryFailure ==
    (query.pc = "thrown" /\ query.error # "pagination")
        => query.tried = Endpoints

\* C20: a paginated query makes at most GQL_MAX_PAGES page requests; it goes
\* on to another page only after a page with edges, hasNextPage and a
\* cursor, and returns after any other page; when page GQL_MAX_PAGES still
\* offers a next page it throws, and a query that throws hands its caller
\* nothing of what it collected.
PaginationBounded ==
    LET more == query.last.edges /\ query.last.hasNextPage /\ query.last.cursor
    IN /\ query.requests <= GQL_MAX_PAGES
       /\ query.pageCount <= GQL_MAX_PAGES + 1
       /\ (query.pc = "request" /\ query.pageCount > 1) => more
       /\ query.pc = "returned" => (~more /\ query.result = "list")
       /\ query.pc = "thrown" => query.result = "none"
       /\ (query.pc = "thrown" /\ query.error = "pagination")
             => (more /\ query.requests = GQL_MAX_PAGES)
       /\ (query.pc = "request" /\ query.requests = GQL_MAX_PAGES)
             => query.pageCount = GQL_MAX_PAGES

\* C20 witness: every one of GQL_MAX_PAGES pages offered a next page, the
\* query has thrown and its caller has nothing.
CapExceeded ==
    /\ query.pc = "thrown"
    /\ query.error = "pagination"
    /\ query.collected = GQL_MAX_PAGES
    /\ query.result = "none"

StrictChunkAcceptance ==
    \A i \in 1..Len(ingest.rows) :
        LET row == ingest.rows[i]
        IN /\ row.Client \in {<<"cursor">>, <<"claude-code">>}
           /\ row.Project = <<<<"p">>>>
           /\ row.Session = <<<<"s">>>>
           /\ row.Chunk \in {<<<<"1", "/", "1">>>>, <<<<"1", "/", "2">>>>}
           /\ row.Offset = <<<<"0">>>>
           /\ row.Count = <<<<"3">>>>
           /\ row.Signature = <<<<"s">>>>

\* C23: a download called with a cap returns at most that many bytes, and no
\* body is read from a response whose Content-Length declares more than
\* the cap.
DownloadCapped ==
    Defined(download.maxBytes) =>
        /\ download.pc = "returned" => download.result[1] <= download.maxBytes[1]
        /\ \A i \in 1..Len(download.attempts) :
              LET attempt == download.attempts[i]
              IN (\E n \in BodyLengths :
                     /\ attempt.contentLength = <<decimal(n)>>
                     /\ n > download.maxBytes[1])
                   => ~attempt.bodyRead

\* C23 witness: with a cap of 1 byte the first endpoint declared 2 bytes and
\* was rejected unread, the second declared 1 byte, sent 2 and was rejected
\* after reading, and the download has failed.
BothCapsHit ==
    /\ download.pc = "thrown"
    /\ download.maxBytes = <<1>>
    /\ Len(download.attempts) = 2
    /\ download.attempts[1] = [contentLength |-> <<<<"2">>>>, bodyRead |-> FALSE,
                               byteLength |-> 0]
    /\ download.attempts[2] = [contentLength |-> <<<<"1">>>>, bodyRead |-> TRUE,
                               byteLength |-> 2]

RedeemIdempotent ==
    /\ \A i, j \in 1..Len(redeem.imports) :
          redeem.imports[i].share_id = redeem.imports[j].share_id => i = j
    /\ (redeem.pc = "done"
          /\ hasSharedConversationImport(redeem.importsAtStart, redeem.shareId))
        => (redeem.outcome = "already imported"
              /\ redeem.imports = redeem.importsAtStart)

\* C26: a redemption that reaches decryption with a share record carrying a
\* signature and a wallet has bytes that the signature verifies; a failed
\* verification ends it before decryption with the table as it was; bytes
\* from the direct download are decrypted with no verification.
VerifyBeforeTrust ==
    LET carries == /\ Defined(redeem.shareInfo)
                   /\ Defined(redeem.shareInfo[1].signature)
                   /\ redeem.shareInfo[1].wallet # ""
    IN /\ (carries /\ Defined(redeem.encrypted)) =>
             /\ redeem.verifyCalled
             /\ IF redeem.shareInfo[1].signature = redeem.encrypted
                THEN redeem.decrypted
                ELSE /\ redeem.outcome = "verification failed"
                     /\ ~redeem.decrypted
                     /\ redeem.imports = redeem.importsAtStart
       /\ redeem.outcome = "verification failed" => carries
       /\ redeem.direct = "ok" => (~redeem.verifyCalled /\ redeem.decrypted)

\* C26 witness: the direct download failed, the Share-Id query returned a
\* signed record, the bytes downloaded for it are not the ones signed, and
\* the redemption has ended with nothing imported.
VerificationFailed ==
    /\ redeem.outcome = "verification failed"
    /\ redeem.direct = "failed"
    /\ redeem.shareInfo[1].signature = <<"genuine">>
    /\ redeem.encrypted = <<"other">>
    /\ redeem.imports = <<>>

\* C27: the direct download is capped at 2 MiB; after a direct download that
\* succeeded no Share-Id query is made;
\* without a tx id, or after a direct download that failed, one query is
\* made and the transaction it resolves to is the next download; when the
\* query finds nothing or fails, or that download fails, the redemption
\* fails with the table as it was.
LookupOrder ==
    /\ Defined(redeem.tokenTx) =>
          /\ Len(redeem.downloads) >= 1
          /\ redeem.downloads[1] = [txId |-> redeem.tokenTx[1], maxBytes |-> 2097152]
    /\ redeem.direct = "ok" =>
          (redeem.queries = 0 /\ Len(redeem.downloads) = 1)
    /\ (redeem.pc \in {"query", "second", "done"} /\ redeem.direct # "ok") =>
          redeem.queries = 1
    /\ redeem.direct = "none" =>
          (redeem.pc \in {"idle", "direct"} \/ ~Defined(redeem.tokenTx))
    /\ Defined(redeem.shareInfo) =>
          /\ redeem.queries = 1
          /\ redeem.downloads[Len(redeem.downloads)].txId = redeem.shareInfo[1].txId
          /\ Len(redeem.downloads) = IF Defined(redeem.tokenTx) THEN 2 ELSE 1
    /\ redeem.outcome \in {"no share found", "query failed", "download failed"} =>
          redeem.imports = redeem.importsAtStart
    /\ (redeem.pc = "done" /\ redeem.direct # "ok"
          /\ ~Defined(redeem.encrypted)) =>
          redeem.outcome \in {"no share found", "query failed", "download failed"}

\* C27 witness: the direct download failed, the Share-Id query resolved to
\* another transaction, its download succeeded and the share is imported
\* under that transaction.
ImportedAfterFallback ==
    /\ redeem.outcome = "imported"
    /\ redeem.direct = "failed"
    /\ redeem.queries = 1
    /\ redeem.downloads = <<shareDownload(1), shareDownload(2)>>
    /\ redeem.imports = <<[share_id |-> 1, tx_id |-> 2]>>

\* C28: a token encoded from {v: 1, sid, k: base64url of a 32-byte key, t}
\* passes extractToken and decodeShareToken without an error and decodes to
\* shareId = sid, key = the 32 bytes and txId = t, undefined when the token
\* has no t.
ShareTokenRoundTrip ==
    token.made.kind = "share" =>
        /\ token.pc # "failed"
        /\ token.pc = "decoded" =>
              LET t == member(token.made.object, "t")
              IN /\ token.decoded[1].shareId = member(token.made.object, "sid").str
                 /\ token.decoded[1].key = token.made.key
                 /\ Len(token.decoded[1].key) = 32
                 /\ token.decoded[1].txId =
                        (IF t.type = "undefined" THEN Undefined ELSE <<t.str>>)

\* a legacy token, its share id holding a quote and a backslash, was decoded
LegacyTokenDecoded ==
    /\ token.pc = "decoded"
    /\ token.made.kind = "share"
    /\ token.made.asUrl
    /\ member(token.made.object, "t") = JsUndefined
    /\ token.decoded[1].txId = Undefined
    /\ token.decoded[1].shareId = <<"a", "\"", "\\">>
    /\ token.decoded[1].key[1] = 255

\* C29: decodeShareToken yields a decoded token for no malformed token: not
\* for one that is not the base64url of JSON (its JSON cut short, or a
\* character outside the alphabet in it), not for one whose v is not 1, whose
\* sid or k is missing, empty or no string, whose t is there and no string,
\* or whose k decodes to other than 32 bytes.
DecodeFailsLoudly ==
    LET m == token.made
        malformed ==
            \/ m.kind = "cut"
            \/ /\ m.kind = "forged"
               /\ \/ Defined(m.stray)
                  \/ member(m.object, "v") # JsNumber(1)
                  \/ member(m.object, "sid").type # "string"
                  \/ member(m.object, "sid").str = <<>>
                  \/ member(m.object, "k").type # "string"
                  \/ member(m.object, "k").str = <<>>
                  \/ member(m.object, "t").type \notin {"undefined", "string"}
                  \/ Len(m.key) # 32
    IN malformed => token.pc # "decoded"

\* C30: extractToken returns an input without "://" trimmed; for a URL the
\* value of its token parameter when it has one that is not empty, else its
\* last non-empty path segment; and throws for an empty input, for a URL
\* that does not parse and for a URL with neither.
ExtractTokenForms ==
    Defined(token.extracted) =>
        LET m == token.made
            u == m.url
            got == token.extracted[1]
        IN IF m.kind = "url"
           THEN IF ~u.scheme.valid \/ ~u.host.valid
                   \/ (u.scheme.special /\ u.host.text = <<>>)
                THEN got = extractFailed("Invalid share URL.")
                ELSE IF Defined(u.query.token) THEN got = extracted(u.query.token[1])
                ELSE IF Defined(u.path.last) THEN got = extracted(u.path.last[1])
                ELSE got = extractFailed("Could not extract token from URL.")
           ELSE IF m.text = <<>> THEN got = extractFailed("Missing share token.")
           ELSE got = extracted(m.text)

\* a URL with blanks around it, a path and a token parameter gave the
\* parameter's value
TokenFromQuery ==
    /\ Defined(token.extracted)
    /\ token.made.kind = "url"
    /\ token.made.before = <<" ">>
    /\ Defined(token.made.url.path.last)
    /\ token.made.url.query.text =
           <<"?", "a", "=", "b", "&", "t", "o", "k", "e", "n", "=", "x", "y">>
    /\ token.extracted[1] = extracted(<<"x", "y">>)

====
